---- MODULE Spec2Model ----
(***************************************************************************)
(* A model of MyGarminDash (src/app.py): the polyline cache, the heatmap   *)
(* request handler with its generation-tracked background polyline worker, *)
(* the retrying provider wrapper garmin_request, the session grouper, and  *)
(* the narrative pipeline with its memo and its response cache.            *)
(*                                                                         *)
(* Python values: None is the empty tuple and any other optional value a    *)
(* one-element tuple; a str whose content is inspected (substring tests,    *)
(* lower(), parsing, ordering) is a sequence of one-character strings; a    *)
(* dict is a function whose DOMAIN is its key set.                         *)
(***************************************************************************)
EXTENDS Integers, Sequences, FiniteSets, TLC

VARIABLES
    \* ---- heatmap / background enrichment (Spec) ----
    fetch_generation,    \* app.py:306
    active_fetch_range,  \* app.py:307
    is_fetching,         \* app.py:308
    poly_cache,          \* PolylineCache.cache: activity id -> point list
    cache_file,          \* polyline_cache.pkl as last written by save()
    heatmap_cache,       \* app.py:319 {data, timestamp, range}
    handlers,            \* one record per request thread of /api/heatmap_data
    workers,             \* one record per background_polyline_fetcher thread
    nspawned,            \* number of worker threads started so far
    nrequests,           \* number of heatmap requests that have arrived
    \* ---- fetch_item on one detail record (SpecFetchItem) ----
    item_details,        \* what get_activity_details returns for the activity
    item_res,            \* the result of fetch_item, once it has run
    item_cache,          \* the PolylineCache the result is stored in
    \* ---- garmin_request (SpecRetry) ----
    garmin_client,       \* app.py:40, the shared client handle
    gr,                  \* the frame of one garmin_request call and its log
    \* ---- group_activities_into_sessions (SpecGroup) ----
    activity_list,       \* the activity list handed to the grouper
    appended,            \* the activity appended to the list, once it is
    groupings,           \* the session keys of every grouping made so far
    \* ---- the heatmap response cache in time (SpecCache) ----
    now,                 \* time.time(), in seconds
    responses,           \* a log of the requests and of what they were answered
    \* ---- the narrative pipeline (SpecInsights) ----
    ai_memory,           \* app.py:257, ai_memory['activity_summaries']
    ai_insights_cache,   \* app.py:312 {data, timestamp}
    insights_run,        \* the frame of one run of the narrative pipeline
    ai_log               \* a log of the runs and of the settings changes

heatVars == <<fetch_generation, active_fetch_range, is_fetching, poly_cache,
              cache_file, heatmap_cache, handlers, workers, nspawned, nrequests>>

itemVars  == <<item_details, item_res, item_cache>>
retryVars == <<garmin_client, gr>>
groupVars == <<activity_list, appended, groupings>>

cacheVars == <<now, responses>>

insightVars == <<ai_memory, ai_insights_cache, insights_run, ai_log>>

vars == <<heatVars, itemVars, retryVars, groupVars, cacheVars, insightVars>>

\* an optional value: None, or Some(x)
None == <<>>
Some(x) == <<x>>

-----------------------------------------------------------------------------
(* Bounds of the model *)

\* heatmap requests that arrive in one run; each starts at most one worker
MaxRequests == 3

-----------------------------------------------------------------------------
(* Python str helpers *)

UpperAlpha == <<"A","B","C","D","E","F","G","H","I","J","K","L","M",
                "N","O","P","Q","R","S","T","U","V","W","X","Y","Z">>
LowerAlpha == <<"a","b","c","d","e","f","g","h","i","j","k","l","m",
                "n","o","p","q","r","s","t","u","v","w","x","y","z">>

\* str.lower() on one character
LowerChar(c) ==
    IF \E i \in DOMAIN UpperAlpha : UpperAlpha[i] = c
    THEN LowerAlpha[CHOOSE i \in DOMAIN UpperAlpha : UpperAlpha[i] = c]
    ELSE c

\* str.lower()
Lower(s) == [i \in DOMAIN s |-> LowerChar(s[i])]

\* `sub in s` for str
Contains(s, sub) ==
    \E i \in 1..(Len(s) - Len(sub) + 1) : SubSeq(s, i, i + Len(sub) - 1) = sub

-----------------------------------------------------------------------------
(* The provider, as far as the heatmap handler and its worker use it.       *)
(* Activities are immutable once fetched; two display ranges share them.    *)

Ranges == {"this_year", "this_month"}

running_key        == <<"r","u","n","n","i","n","g">>
indoor_cycling_key == <<"i","n","d","o","o","r","_","c","y","c","l","i","n","g">>
virtual_ride_key   == <<"V","i","r","t","u","a","l","_","R","i","d","e">>
unknown_key        == <<"u","n","k","n","o","w","n">>
virtual_word       == <<"v","i","r","t","u","a","l">>

\* an activity summary: startLatitude is None or Some(tenths of a degree);
\* typeKey is None for a record without activityType, else Some(str)
Act(id, lat, key) == [activityId |-> id, startLatitude |-> lat, typeKey |-> key]

\* client.get_activities_by_date(start, end) for the range's dates
ActivityList(range_val) ==
    IF range_val = "this_year"
    THEN << Act(101, Some(401), Some(running_key)),
            Act(102, Some(0), Some(indoor_cycling_key)),
            Act(104, None, None) >>
    ELSE << Act(102, Some(0), Some(indoor_cycling_key)),
            Act(103, None, Some(virtual_ride_key)) >>

\* client.get_activity_details(aid), when it does not raise
ActivityDetails(aid) ==
    CASE aid = 101 -> [geoPolylineDTO |-> Some(
                        [polyline |-> << [lat |-> 401, lon |-> -741],
                                         [lat |-> 402, lon |-> -742] >>])]
      [] aid = 103 -> [geoPolylineDTO |-> Some(
                        [polyline |-> << [lat |-> 0, lon |-> 0],
                                         [lat |-> 1, time |-> 5],
                                         [lat |-> 2, lon |-> 2] >>])]
      [] OTHER     -> [geoPolylineDTO |-> None]

-----------------------------------------------------------------------------
(* PolylineCache (app.py:204-234) *)

\* PolylineCache.has
poly_cache_has(cache, activity_id) == activity_id \in DOMAIN cache

\* PolylineCache.get
poly_cache_get(cache, activity_id) ==
    IF activity_id \in DOMAIN cache THEN Some(cache[activity_id]) ELSE None

\* a faulty set that forgets every other key
poly_cache_set_alone(cache, activity_id, polyline) ==
    [k \in {activity_id} |-> polyline]

\* PolylineCache.set: self.cache[activity_id] = polyline
poly_cache_set(cache, activity_id, polyline) ==
    [k \in DOMAIN cache \cup {activity_id} |->
        IF k = activity_id THEN polyline ELSE cache[k]]

-----------------------------------------------------------------------------
(* fetch_item (app.py:402-424): the value computed from a detail record *)

PolyMaxPoints == 500

\* seq[::step]
Stride(seq, step) ==
    [i \in 1..((Len(seq) + step - 1) \div step) |-> seq[(i - 1) * step + 1]]

\* [[p['lat'], p['lon']] for p in poly if 'lat' in p and 'lon' in p]
Compact(poly) ==
    LET kept == SelectSeq(poly, LAMBDA p : "lat" \in DOMAIN p /\ "lon" \in DOMAIN p)
    IN  [i \in 1..Len(kept) |-> <<kept[i].lat, kept[i].lon>>]

\* if len(compact) > 500: step = len(compact) // 500; compact = compact[::step]
Downsample(compact) ==
    IF Len(compact) > PolyMaxPoints
    THEN Stride(compact, Len(compact) \div PolyMaxPoints)
    ELSE compact

\* the point list fetch_item returns with the id, for details that were fetched
fetch_item_poly(details) ==
    LET poly == IF details.geoPolylineDTO = None THEN <<>>
                ELSE details.geoPolylineDTO[1].polyline
    IN  IF poly = <<>> THEN <<>> ELSE Downsample(Compact(poly))

-----------------------------------------------------------------------------
(* get_heatmap_data (app.py:2489-2602): the scan of the activity list *)

\* a faulty candidate test that looks at the start latitude only
IsCandidate_by_latitude(act) == act.startLatitude /= None

\* lat is not None or is_virtual   (app.py:2554-2563)
IsCandidate(act) ==
    LET type_key == IF act.typeKey = None THEN unknown_key ELSE act.typeKey[1]
        is_virtual == \/ Contains(Lower(type_key), virtual_word)
                      \/ Contains(Lower(type_key), indoor_cycling_key)
    IN  act.startLatitude /= None \/ is_virtual

\* one iteration of `for act in activities` (app.py:2532-2564) on the lists so far
\* a faulty scan that never adds an entry
ScanPoints_skipping(act, cache, result_points) == result_points

ScanPoints(act, cache, result_points) ==
    LET poly == poly_cache_get(cache, act.activityId)
    IN  IF poly_cache_has(cache, act.activityId) /\ poly /= None /\ poly[1] /= <<>>
        THEN Append(result_points,
                    [id |-> act.activityId, type |-> act.typeKey, poly |-> poly[1]])
        ELSE result_points

ScanMissing(act, cache, missing_ids) ==
    IF ~poly_cache_has(cache, act.activityId) /\ IsCandidate(act)
    THEN Append(missing_ids, act.activityId)
    ELSE missing_ids

\* the response body (app.py:2590-2595)
HeatmapResult(activities, missing_ids, result_points) ==
    [count |-> Len(result_points), total_activities |-> Len(activities),
     missing_count |-> Len(missing_ids), data |-> result_points]

-----------------------------------------------------------------------------
(* Threads of the heatmap pipeline *)

\* two request threads; a request is served by h2 only while h1 is busy
Handlers  == {"h1", "h2"}
WorkerIds == 1..MaxRequests

IdleHandler ==
    [pc |-> "idle", range_val |-> "", idx |-> 0,
     missing_ids |-> <<>>, result_points |-> <<>>]

\* a slot no thread has been started in, and a thread that has returned
NoWorker ==
    [pc |-> "none", generation_id |-> 0, activity_ids |-> <<>>, queue |-> <<>>,
     inflight |-> None, completed |-> <<>>, res |-> None, count |-> 0,
     observed |-> FALSE]

\* the cache the process loads at its start (app.py:209-216, 256): the pickle
\* of an earlier run that had fetched activity 101
InitialCache == [k \in {101} |-> <<<<401, -741>>, <<402, -742>>>>]

HeatInit ==
    /\ fetch_generation = 0
    /\ active_fetch_range = None
    /\ is_fetching = FALSE
    /\ poly_cache = InitialCache
    /\ cache_file = poly_cache
    /\ heatmap_cache = [data |-> None, timestamp |-> None, range |-> None]
    /\ handlers = [h \in Handlers |-> IdleHandler]
    /\ workers = [w \in WorkerIds |-> NoWorker]
    /\ nspawned = 0
    /\ nrequests = 0

(* app.py:2491-2526: a request arrives.  The response cache answers it when it
   holds data of the same range younger than HEATMAP_CACHE_EXPIRY; the time
   elapsed since the stored timestamp is an input of the request.  Otherwise
   the client and the activity list are fetched: any exception ends the
   request with the error body and status 500 (app.py:2604-2606). *)
hArrive(h, range_val, fresh, ok) ==
    /\ handlers[h].pc = "idle"
    /\ h = "h2" => handlers["h1"].pc /= "idle"
    /\ nrequests' = nrequests + 1
    /\ LET hit == /\ heatmap_cache.data /= None
                  /\ heatmap_cache.range = Some(range_val)
                  /\ heatmap_cache.timestamp /= None
                  /\ fresh
           me == [IdleHandler EXCEPT !.range_val = range_val]
       IN  handlers' = [handlers EXCEPT ![h] =
               IF hit \/ ~ok
               THEN IdleHandler
               ELSE IF ActivityList(range_val) = <<>>
               THEN [me EXCEPT !.pc = "result"]
               ELSE [me EXCEPT !.pc = "scan", !.idx = 1]]
    /\ UNCHANGED <<fetch_generation, active_fetch_range, is_fetching, poly_cache,
                   cache_file, heatmap_cache, workers, nspawned,
                   itemVars, retryVars, groupVars, cacheVars, insightVars>>

\* one of the requests of a run
hRequest(h, range_val, fresh, ok) ==
    nrequests < MaxRequests /\ hArrive(h, range_val, fresh, ok)

(* app.py:2532-2567: one iteration of the scan; after the last one the request
   goes to the critical section if anything is missing. *)
hScan(h) ==
    LET me == handlers[h]
        activities == ActivityList(me.range_val)
        act == activities[me.idx]
        missing_ids == ScanMissing(act, poly_cache, me.missing_ids)
        result_points == ScanPoints(act, poly_cache, me.result_points)
    IN  /\ me.pc = "scan"
        /\ handlers' = [handlers EXCEPT ![h] =
               [@ EXCEPT !.missing_ids = missing_ids,
                         !.result_points = result_points,
                         !.idx = @ + 1,
                         !.pc = IF me.idx < Len(activities) THEN "scan"
                                ELSE IF missing_ids /= <<>> THEN "lock"
                                ELSE "result"]]
        /\ UNCHANGED <<fetch_generation, active_fetch_range, is_fetching,
                       poly_cache, cache_file, heatmap_cache, workers, nspawned, nrequests,
                   itemVars, retryVars, groupVars, cacheVars, insightVars>>

\* a faulty increment that skips a generation
Bump_twice(generation) == generation + 2

\* fetch_generation += 1  (app.py:2573)
Bump(generation) == generation + 1

\* a faulty start that hands the worker the generation before
StartWorker_previous(ids, gen) ==
    /\ workers' = [workers EXCEPT ![nspawned + 1] =
           [NoWorker EXCEPT !.pc = "start", !.generation_id = gen - 1,
                            !.activity_ids = ids]]
    /\ nspawned' = nspawned + 1

\* threading.Thread(target=background_polyline_fetcher, args=(client, ids, gen)).start()
StartWorker(ids, gen) ==
    /\ workers' = [workers EXCEPT ![nspawned + 1] =
           [NoWorker EXCEPT !.pc = "start", !.generation_id = gen,
                            !.activity_ids = ids]]
    /\ nspawned' = nspawned + 1

\* a faulty section that takes a new generation whenever it starts a worker
hLock_bumping(h) ==
    LET me == handlers[h]
    IN  /\ me.pc = "lock"
        /\ IF Some(me.range_val) /= active_fetch_range \/ ~is_fetching
           THEN /\ fetch_generation' = Bump(fetch_generation)
                /\ active_fetch_range' = Some(me.range_val)
                /\ is_fetching' = TRUE
                /\ StartWorker(me.missing_ids, Bump(fetch_generation))
           ELSE UNCHANGED <<fetch_generation, active_fetch_range, is_fetching,
                            workers, nspawned, nrequests>>
        /\ handlers' = [handlers EXCEPT ![h].pc = "result"]
        /\ UNCHANGED <<poly_cache, cache_file, heatmap_cache, nrequests,
                   itemVars, retryVars, groupVars, cacheVars, insightVars>>

(* app.py:2570-2588: the critical section under fetch_lock.  Every writer of
   fetch_generation and active_fetch_range holds the lock, and a worker's
   unlocked write of is_fetching = False inside the section is overwritten by
   the section's own is_fetching = True, so the section is one step. *)
hLock(h) ==
    LET me == handlers[h]
    IN  /\ me.pc = "lock"
        /\ IF Some(me.range_val) /= active_fetch_range
           THEN /\ fetch_generation' = Bump(fetch_generation)
                /\ active_fetch_range' = Some(me.range_val)
                /\ is_fetching' = TRUE
                /\ StartWorker(me.missing_ids, Bump(fetch_generation))
           ELSE IF ~is_fetching
           THEN /\ is_fetching' = TRUE
                /\ StartWorker(me.missing_ids, fetch_generation)
                /\ UNCHANGED <<fetch_generation, active_fetch_range>>
           ELSE UNCHANGED <<fetch_generation, active_fetch_range, is_fetching,
                            workers, nspawned, nrequests>>
        /\ handlers' = [handlers EXCEPT ![h].pc = "result"]
        /\ UNCHANGED <<poly_cache, cache_file, heatmap_cache, nrequests,
                   itemVars, retryVars, groupVars, cacheVars, insightVars>>

(* app.py:2590-2602: build the body, store it in the response cache and return
   it.  The three assignments to heatmap_cache are separate statements of the
   handler; this action takes them as one step. *)
hResult(h) ==
    LET me == handlers[h]
        result == HeatmapResult(ActivityList(me.range_val), me.missing_ids,
                                me.result_points)
    IN  /\ me.pc = "result"
        /\ heatmap_cache' = [data |-> Some(result), timestamp |-> Some("now"),
                             range |-> Some(me.range_val)]
        /\ handlers' = [handlers EXCEPT ![h] = IdleHandler]
        /\ UNCHANGED <<fetch_generation, active_fetch_range, is_fetching,
                       poly_cache, cache_file, workers, nspawned, nrequests,
                   itemVars, retryVars, groupVars, cacheVars, insightVars>>

-----------------------------------------------------------------------------
(* background_polyline_fetcher (app.py:394-456).  The thread runs the loop
   over as_completed; its ThreadPoolExecutor(max_workers=1) has one pool
   thread that runs fetch_item for the submitted ids, one after the other.
   `observed` records that one of the thread's generation checks (app.py:404,
   437, 453) has found generation_id /= fetch_generation. *)

DoneWorker == [NoWorker EXCEPT !.pc = "done"]

\* a faulty filter that keeps every id it is given
ToFetch_unfiltered(activity_ids, cache) == activity_ids

\* [aid for aid in activity_ids if not poly_cache.has(aid)]  (app.py:430)
ToFetch(activity_ids, cache) ==
    SelectSeq(activity_ids, LAMBDA aid : ~poly_cache_has(cache, aid))

\* app.py:428-433: filter the ids and submit them all
wStart(w) ==
    /\ workers[w].pc = "start"
    /\ workers' = [workers EXCEPT ![w] =
           [@ EXCEPT !.pc = "loop", !.activity_ids = <<>>,
                     !.queue = ToFetch(workers[w].activity_ids, poly_cache)]]
    /\ UNCHANGED <<fetch_generation, active_fetch_range, is_fetching, poly_cache,
                   cache_file, heatmap_cache, handlers, nspawned, nrequests,
                   itemVars, retryVars, groupVars, cacheVars, insightVars>>

\* app.py:404: the pool thread takes the next submitted id and checks the
\* generation; on a mismatch the future completes with None
pCheck(w) ==
    LET me == workers[w]
    IN  /\ me.pc \in {"loop", "act"}
        /\ me.queue /= <<>>
        /\ me.inflight = None
        /\ workers' = [workers EXCEPT ![w] =
               IF me.generation_id /= fetch_generation
               THEN [@ EXCEPT !.queue = Tail(@), !.observed = TRUE,
                              !.completed = Append(@, None)]
               ELSE [@ EXCEPT !.queue = Tail(@), !.inflight = Some(Head(me.queue))]]
        /\ UNCHANGED <<fetch_generation, active_fetch_range, is_fetching,
                       poly_cache, cache_file, heatmap_cache, handlers, nspawned, nrequests,
                   itemVars, retryVars, groupVars, cacheVars, insightVars>>

\* app.py:406-424: the detail call returns or raises; the future completes
pFetch(w, ok) ==
    LET me == workers[w]
        aid == me.inflight[1]
        result == IF ok THEN Some(<<aid, fetch_item_poly(ActivityDetails(aid))>>)
                  ELSE None
    IN  /\ me.inflight /= None
        /\ workers' = [workers EXCEPT ![w] =
               [@ EXCEPT !.inflight = None, !.completed = Append(@, result)]]
        /\ UNCHANGED <<fetch_generation, active_fetch_range, is_fetching,
                       poly_cache, cache_file, heatmap_cache, handlers, nspawned, nrequests,
                   itemVars, retryVars, groupVars, cacheVars, insightVars>>

\* app.py:435-442: as_completed yields the next finished future and the loop
\* checks the generation; on a mismatch it cancels what is pending and returns
wNext(w) ==
    LET me == workers[w]
    IN  /\ me.pc = "loop"
        /\ me.completed /= <<>>
        /\ workers' = [workers EXCEPT ![w] =
               IF me.generation_id /= fetch_generation
               THEN [@ EXCEPT !.pc = "exit", !.observed = TRUE,
                              !.queue = <<>>, !.completed = <<>>]
               ELSE [@ EXCEPT !.pc = "act", !.res = Head(me.completed),
                              !.completed = Tail(@)]]
        /\ UNCHANGED <<fetch_generation, active_fetch_range, is_fetching,
                       poly_cache, cache_file, heatmap_cache, handlers, nspawned, nrequests,
                   itemVars, retryVars, groupVars, cacheVars, insightVars>>

\* count % 20 == 0  (app.py:448)
SaveEvery == 20

\* a faulty loop body that gives the batch up when a fetch has failed
wAct_aborting(w) ==
    LET me == workers[w]
        stored == IF me.res = None THEN poly_cache
                  ELSE poly_cache_set(poly_cache, me.res[1][1], me.res[1][2])
        count == IF me.res = None THEN me.count ELSE me.count + 1
    IN  /\ me.pc = "act"
        /\ poly_cache' = stored
        /\ cache_file' = IF me.res /= None /\ count % SaveEvery = 0
                         THEN stored ELSE cache_file
        /\ workers' = [workers EXCEPT ![w] =
               IF me.res = None
               THEN [@ EXCEPT !.pc = "exit", !.queue = <<>>, !.completed = <<>>]
               ELSE [@ EXCEPT !.pc = "loop", !.res = None, !.count = count]]
        /\ UNCHANGED <<fetch_generation, active_fetch_range, is_fetching,
                       heatmap_cache, handlers, nspawned, nrequests,
                   itemVars, retryVars, groupVars, cacheVars, insightVars>>

\* app.py:443-450: store the result, count it, save on every 20th
wAct(w) ==
    LET me == workers[w]
        stored == IF me.res = None THEN poly_cache
                  ELSE poly_cache_set(poly_cache, me.res[1][1], me.res[1][2])
        count == IF me.res = None THEN me.count ELSE me.count + 1
    IN  /\ me.pc = "act"
        /\ poly_cache' = stored
        /\ cache_file' = IF me.res /= None /\ count % SaveEvery = 0
                         THEN stored ELSE cache_file
        /\ workers' = [workers EXCEPT ![w] =
               [@ EXCEPT !.pc = "loop", !.res = None, !.count = count]]
        /\ UNCHANGED <<fetch_generation, active_fetch_range, is_fetching,
                       heatmap_cache, handlers, nspawned, nrequests,
                   itemVars, retryVars, groupVars, cacheVars, insightVars>>

\* the with block is left, by the loop's end when every future is consumed or
\* by the return (app.py:440), and its exit waits for the running fetch_item
LeavesWith(me) ==
    \/ me.pc = "loop" /\ me.completed = <<>> /\ me.queue = <<>> /\ me.inflight = None
    \/ me.pc = "exit" /\ me.inflight = None

\* app.py:452-453: finally: if generation_id == fetch_generation
wFinally(w) ==
    LET me == workers[w]
    IN  /\ LeavesWith(me)
        /\ workers' = [workers EXCEPT ![w] =
               IF me.generation_id = fetch_generation
               THEN [@ EXCEPT !.pc = "clear", !.completed = <<>>]
               ELSE DoneWorker]
        /\ UNCHANGED <<fetch_generation, active_fetch_range, is_fetching,
                       poly_cache, cache_file, heatmap_cache, handlers, nspawned, nrequests,
                   itemVars, retryVars, groupVars, cacheVars, insightVars>>

\* a faulty finally block that leaves the flag as it is
wClear_keeping(w) ==
    /\ workers[w].pc = "clear"
    /\ workers' = [workers EXCEPT ![w].pc = "save"]
    /\ UNCHANGED <<fetch_generation, active_fetch_range, is_fetching, poly_cache,
                   cache_file, heatmap_cache, handlers, nspawned, nrequests,
                   itemVars, retryVars, groupVars, cacheVars, insightVars>>

\* app.py:454: is_fetching = False
wClear(w) ==
    /\ workers[w].pc = "clear"
    /\ is_fetching' = FALSE
    /\ workers' = [workers EXCEPT ![w].pc = "save"]
    /\ UNCHANGED <<fetch_generation, active_fetch_range, poly_cache, cache_file,
                   heatmap_cache, handlers, nspawned, nrequests,
                   itemVars, retryVars, groupVars, cacheVars, insightVars>>

\* app.py:455-456: poly_cache.save(), and the thread returns
wSave(w) ==
    /\ workers[w].pc = "save"
    /\ cache_file' = poly_cache
    /\ workers' = [workers EXCEPT ![w] = DoneWorker]
    /\ UNCHANGED <<fetch_generation, active_fetch_range, is_fetching, poly_cache,
                   heatmap_cache, handlers, nspawned, nrequests,
                   itemVars, retryVars, groupVars, cacheVars, insightVars>>

-----------------------------------------------------------------------------

-----------------------------------------------------------------------------
(* fetch_item and the store of its result (app.py:402-424, 443-445), on one  *)
(* detail record of any length                                               *)

\* the longest raw polyline the provider returns here
MaxRawLen == 1001

\* a raw polyline of n points; when k > 0 every k-th point lacks 'lon'
RawPolyline(n, k) ==
    [i \in 1..n |-> IF k > 0 /\ i % k = 0 THEN [lat |-> i]
                    ELSE [lat |-> i, lon |-> -i]]

\* the detail records get_activity_details may return for activity 105
DetailRecords ==
    {[geoPolylineDTO |-> None]} \cup
    {[geoPolylineDTO |-> Some([polyline |-> RawPolyline(n, k)])] :
        n \in 0..MaxRawLen, k \in {0, 3}}

ItemIdle == item_details = None /\ item_res = None /\ item_cache = InitialCache

ItemInit ==
    /\ item_details \in {Some(d) : d \in DetailRecords}
    /\ item_res = None
    /\ item_cache = InitialCache

\* fetch_item(105) returns (aid, compact)
fiFetch ==
    /\ item_details /= None /\ item_res = None
    /\ item_res' = Some(<<105, fetch_item_poly(item_details[1])>>)
    /\ UNCHANGED <<item_details, item_cache, heatVars, retryVars, groupVars, cacheVars, insightVars>>

\* poly_cache.set(res[0], res[1])
fiSet ==
    /\ item_res /= None /\ ~poly_cache_has(item_cache, item_res[1][1])
    /\ item_cache' = poly_cache_set(item_cache, item_res[1][1], item_res[1][2])
    /\ UNCHANGED <<item_details, item_res, heatVars, retryVars, groupVars, cacheVars, insightVars>>

-----------------------------------------------------------------------------
(* garmin_request (app.py:111-128) *)

\* max_retries = 3
MaxRetries == 3

\* what str(e) may be for an exception of the wrapped call
session_expired   == <<"S","e","s","s","i","o","n"," ","e","x","p","i","r","e","d">>
login_failed      == <<"L","o","g","i","n"," ","f","a","i","l","e","d">>
unauthorized      == <<"4","0","1"," ","U","n","a","u","t","h","o","r","i","z","e","d">>
read_timed_out    == <<"R","e","a","d"," ","t","i","m","e","d"," ","o","u","t">>
too_many_requests == <<"4","2","9"," ","T","o","o"," ","M","a","n","y"," ","R","e","q","u","e","s","t","s">>
ErrorTexts == {session_expired, login_failed, unauthorized, read_timed_out,
               too_many_requests}

\* what the wrapped call may return
Results == {"r1", "r2"}

\* ["session", "login", "auth", "expired"]
SessionWords == << <<"s","e","s","s","i","o","n">>,
                  <<"l","o","g","i","n">>,
                  <<"a","u","t","h">>,
                  <<"e","x","p","i","r","e","d">> >>

\* a faulty test that compares the text without lowering it
IsSessionError_cased(text) ==
    \E i \in DOMAIN SessionWords : Contains(text, SessionWords[i])

\* any(err in str(e).lower() for err in [...])
IsSessionError(text) ==
    \E i \in DOMAIN SessionWords : Contains(Lower(text), SessionWords[i])

\* a faulty backoff that starts at zero
BackoffWait_from_zero(attempt) == attempt * 2

\* wait = (attempt + 1) * 2
BackoffWait(attempt) == (attempt + 1) * 2

\* the frame of a call: where it is, the loop index, the client object whose
\* bound method func is (app.py:2418: garmin_request(client.get_..., ...)),
\* and a log of what the wrapped call did, of the sleeps, of the attempts
\* that discarded the handle, and of the client each attempt ran against
NoCall ==
    [pc |-> "none", attempt |-> 0, outcomes |-> <<>>, waits |-> <<>>,
     discards |-> <<>>, result |-> None, raised |-> None,
     func |-> "", against |-> <<>>]

RetryIdle == garmin_client = None /\ gr = NoCall

\* the caller has obtained the client (get_garmin_client) and calls garmin_request
RetryInit ==
    /\ garmin_client = Some("client")
    /\ gr = [NoCall EXCEPT !.pc = "call", !.func = "client"]

\* app.py:116-117, 122, 127-128: one attempt; the wrapped call returns a value
\* or raises, and the exception of the last attempt is re-raised
grCall(outcome) ==
    /\ gr.pc = "call"
    /\ gr' = [gr EXCEPT
                !.outcomes = Append(@, outcome),
                !.against = Append(@, gr.func),
                !.pc = IF outcome.ok THEN "returned"
                       ELSE IF gr.attempt < MaxRetries - 1 THEN "sleep"
                       ELSE "raised",
                !.result = IF outcome.ok THEN Some(outcome.value) ELSE None,
                !.raised = IF ~outcome.ok /\ gr.attempt >= MaxRetries - 1
                           THEN Some(outcome.text) ELSE None]
    /\ UNCHANGED <<garmin_client, heatVars, itemVars, groupVars, cacheVars, insightVars>>

\* app.py:119-121: time.sleep(wait)
grSleep ==
    /\ gr.pc = "sleep"
    /\ gr' = [gr EXCEPT !.pc = "check",
                        !.waits = Append(@, BackoffWait(gr.attempt))]
    /\ UNCHANGED <<garmin_client, heatVars, itemVars, groupVars, cacheVars, insightVars>>

\* app.py:123-126: drop the handle on a session-looking error, then loop
grCheck ==
    LET e == gr.outcomes[Len(gr.outcomes)].text
    IN  /\ gr.pc = "check"
        /\ garmin_client' = IF IsSessionError(e) THEN None ELSE garmin_client
        /\ gr' = [gr EXCEPT !.pc = "call", !.attempt = @ + 1,
                            !.discards = IF IsSessionError(e)
                                         THEN Append(@, gr.attempt) ELSE @]
        /\ UNCHANGED <<heatVars, itemVars, groupVars, cacheVars, insightVars>>

\* app.py:89-109: another request's get_garmin_client logs in again while this
\* call is between two attempts, and stores the new client object
grLogin ==
    /\ gr.pc \in {"sleep", "check", "call"}
    /\ garmin_client = None
    /\ garmin_client' = Some("relogin")
    /\ UNCHANGED <<gr, heatVars, itemVars, groupVars, cacheVars, insightVars>>

\* the outcomes of one invocation of the wrapped call
Outcomes ==
    {[ok |-> TRUE, value |-> v, text |-> <<>>] : v \in Results} \cup
    {[ok |-> FALSE, value |-> "", text |-> e] : e \in ErrorTexts}

-----------------------------------------------------------------------------
(* group_activities_into_sessions (app.py:259-303) and the session key      *)
(* (app.py:761)                                                              *)

\* the length of the lists that are grouped, before an activity is appended
MaxActs == 2
\* the latest hour at which a drawn activity starts (the earliest is 08:00)
MaxHour == 11
\* the number of times the grouper is called in one run
MaxGroupings == 3

\* hours_gap=2
HoursGap == 2

Digits == <<"0","1","2","3","4","5","6","7","8","9">>
IsDigit(c) == \E i \in DOMAIN Digits : Digits[i] = c
DigitVal(c) == (CHOOSE i \in DOMAIN Digits : Digits[i] = c) - 1

\* the characters of the start strings, in code point order
CharOrder == <<" ", "-">> \o Digits \o <<":", "T">>
Ord(c) == CHOOSE i \in DOMAIN CharOrder : CharOrder[i] = c

\* s < t for str
RECURSIVE StrLess(_, _)
StrLess(s, t) ==
    IF t = <<>> THEN FALSE
    ELSE IF s = <<>> THEN TRUE
    ELSE IF Head(s) = Head(t) THEN StrLess(Tail(s), Tail(t))
    ELSE Ord(Head(s)) < Ord(Head(t))

\* str(n) for n >= 0
RECURSIVE Str(_)
Str(n) == IF n < 10 THEN <<Digits[n + 1]>>
          ELSE Str(n \div 10) \o <<Digits[(n % 10) + 1]>>

\* the two-digit field at position i of s
Num2(s, i) == DigitVal(s[i]) * 10 + DigitVal(s[i + 1])

\* datetime.strptime(start_str, '%Y-%m-%d %H:%M:%S') inside try/except, for
\* strings of January 2024 or of another shape: the seconds since the month
\* began, or None where strptime raises
ParseStart(start_str) ==
    IF /\ Len(start_str) = 19
       /\ start_str[5] = "-" /\ start_str[8] = "-" /\ start_str[11] = " "
       /\ start_str[14] = ":" /\ start_str[17] = ":"
       /\ \A i \in {1, 2, 3, 4, 6, 7, 9, 10, 12, 13, 15, 16, 18, 19} :
             IsDigit(start_str[i])
    THEN Some(((Num2(start_str, 9) - 1) * 24 + Num2(start_str, 12)) * 3600
              + Num2(start_str, 15) * 60 + Num2(start_str, 18))
    ELSE None

\* sorted(activities, key=lambda x: x.get('startTimeLocal', '')): stable
RECURSIVE SortedByStart(_)
SortedByStart(acts) ==
    IF acts = <<>> THEN <<>>
    ELSE LET front == SortedByStart(SubSeq(acts, 1, Len(acts) - 1))
             a == acts[Len(acts)]
             n == Cardinality({i \in DOMAIN front :
                     ~StrLess(a.startTimeLocal, front[i].startTimeLocal)})
         IN  SubSeq(front, 1, n) \o <<a>> \o SubSeq(front, n + 1, Len(front))

\* a faulty comparison that lets an activity join at exactly the gap
WithinGap_inclusive(start_dt, last_end_time) ==
    start_dt - last_end_time <= HoursGap * 3600

\* (start_dt - last_end_time).total_seconds() < (hours_gap * 3600)
WithinGap(start_dt, last_end_time) ==
    start_dt - last_end_time < HoursGap * 3600

\* the loop over sorted_acts and the append after it (app.py:276-299)
RECURSIVE Walk(_, _, _, _, _)
Walk(sorted_acts, i, sessions, current_session, last_end_time) ==
    LET closed == IF current_session /= <<>>
                  THEN Append(sessions, current_session) ELSE sessions
    IN  IF i > Len(sorted_acts) THEN closed
        ELSE LET a == sorted_acts[i]
                 dur == IF a.duration = None THEN 0 ELSE a.duration[1]
                 start_dt == ParseStart(a.startTimeLocal)
                 joins == /\ last_end_time /= None
                          /\ start_dt /= None
                          /\ WithinGap(start_dt[1], last_end_time[1])
                 end_time == IF start_dt /= None THEN Some(start_dt[1] + dur)
                             ELSE last_end_time
             IN  IF joins
                 THEN Walk(sorted_acts, i + 1, sessions,
                           Append(current_session, a), end_time)
                 ELSE Walk(sorted_acts, i + 1, closed, <<a>>, end_time)

\* a faulty return that leaves the sessions oldest first
Reverse_skipped(seq) == seq

\* sessions.reverse()
Reverse(seq) == [i \in DOMAIN seq |-> seq[Len(seq) + 1 - i]]

\* [a for a in activities if a is not None]
NonNull(acts) == SelectSeq(acts, LAMBDA a : a /= None)

group_activities_into_sessions(acts) ==
    IF NonNull(acts) = <<>> THEN <<>>
    ELSE Reverse(Walk(SortedByStart(NonNull(acts)), 1, <<>>, <<>>, None))

\* "|".join([str(a.get('activityId')) for a in s])
RECURSIVE session_id(_)
session_id(s) ==
    IF Len(s) = 1 THEN Str(s[1].activityId)
    ELSE session_id(SubSeq(s, 1, Len(s) - 1)) \o <<"|">> \o Str(s[Len(s)].activityId)

\* the keys of the sessions of a list, most recent first
SessionKeys(acts) ==
    LET sessions == group_activities_into_sessions(acts)
    IN  [i \in DOMAIN sessions |-> session_id(sessions[i])]

\* start strings: 'YYYY-MM-DD HH:MM:SS' on the hour, the same with a 'T', the
\* same cut after the hour, and the '' of an activity without the field
Pair(n) == <<Digits[(n \div 10) + 1], Digits[(n % 10) + 1]>>
Stamp(h) == <<"2","0","2","4","-","0","1","-","0","1"," ">> \o Pair(h) \o <<":","0","0",":","0","0">>
IsoStamp(h) == <<"2","0","2","4","-","0","1","-","0","1","T">> \o Pair(h) \o <<":","0","0",":","0","0">>
ShortStamp(h) == <<"2","0","2","4","-","0","1","-","0","1"," ">> \o Pair(h)
Starts == {<<>>, IsoStamp(9), ShortStamp(9)} \cup {Stamp(h) : h \in 8..MaxHour}
Durations == {None, Some(3600)}

\* the lists the provider returns: the i-th entry is None or an activity
\* with id i
ActivityLists ==
    UNION {{[i \in 1..n |-> IF i \in nulls THEN None
                            ELSE [activityId |-> i, startTimeLocal |-> st[i],
                                  duration |-> du[i]]] :
               st \in [1..n -> Starts], du \in [1..n -> Durations],
               nulls \in SUBSET (1..n)} :
           n \in 0..MaxActs}

\* the activity a later fetch of the list has in addition, at its end
NewActivities ==
    {[activityId |-> 12, startTimeLocal |-> st, duration |-> du] :
        st \in Starts, du \in Durations}

GroupIdle == activity_list = <<>> /\ appended = None /\ groupings = <<>>

GroupInit ==
    /\ activity_list \in ActivityLists
    /\ appended = None
    /\ groupings = <<>>

\* the list is grouped and the keys of its sessions are computed
ggGroup ==
    /\ Len(groupings) < MaxGroupings
    /\ groupings' = Append(groupings,
                           [of |-> activity_list,
                            sessions |-> group_activities_into_sessions(activity_list),
                            keys |-> SessionKeys(activity_list)])
    /\ UNCHANGED <<activity_list, appended, heatVars, itemVars, retryVars, cacheVars, insightVars>>

\* the provider's list grows by one activity
ggAppend(b) ==
    /\ appended = None
    /\ activity_list' = Append(activity_list, b)
    /\ appended' = Some(b)
    /\ UNCHANGED <<groupings, heatVars, itemVars, retryVars, cacheVars, insightVars>>

-----------------------------------------------------------------------------
(* get_heatmap_data with its response cache in time (app.py:2491-2496,      *)
(* 2597-2602), beside the scan, the critical section and the workers above  *)

\* the requests that arrive in one run here
MaxCacheRequests == 2
\* the minutes that pass in one run
MaxTicks == 2
\* the requests that arrive in one run of the request threads alone
MaxSlotRequests == 3

\* HEATMAP_CACHE_EXPIRY = 120
HEATMAP_CACHE_EXPIRY == 120

CacheIdle == now = 0 /\ responses = <<>>

\* app.py:2494-2495: the cache holds data of this range, younger than the TTL
CacheFresh(cache, range_val, t) ==
    /\ cache.data /= None
    /\ cache.range = Some(range_val)
    /\ t - cache.timestamp[1] < HEATMAP_CACHE_EXPIRY

\* a minute passes
cTick ==
    /\ now < MaxTicks * 60
    /\ now' = now + 60
    /\ UNCHANGED <<responses, heatVars, itemVars, retryVars, groupVars, insightVars>>

\* an entry of the log: who answers, for which range, with which status (0
\* while the request is served), the body, whether it came from the response
\* cache, and the polyline cache as it was when the request arrived
LogEntry(h, range_val, status, body, cached, known) ==
    [by |-> h, range_val |-> range_val, status |-> status, body |-> body,
     cached |-> cached, known |-> known]

\* app.py:2491-2526, 2604-2606: a request arrives; it is answered from the
\* response cache, or fails with status 500, or goes on to the scan
cArrive(h, range_val, ok) ==
    /\ handlers[h].pc = "idle"
    /\ h = "h2" => handlers["h1"].pc /= "idle"
    /\ nrequests' = nrequests + 1
    /\ IF CacheFresh(heatmap_cache, range_val, now)
       THEN /\ responses' = Append(responses,
                   LogEntry(h, range_val, 200, heatmap_cache.data, TRUE, poly_cache))
            /\ UNCHANGED handlers
       ELSE IF ~ok
       THEN /\ responses' = Append(responses,
                   LogEntry(h, range_val, 500, None, FALSE, poly_cache))
            /\ UNCHANGED handlers
       ELSE /\ responses' = Append(responses,
                   LogEntry(h, range_val, 0, None, FALSE, poly_cache))
            /\ handlers' = [handlers EXCEPT ![h] =
                   [IdleHandler EXCEPT !.range_val = range_val,
                       !.pc = IF ActivityList(range_val) = <<>> THEN "result"
                              ELSE "scan",
                       !.idx = 1]]
    /\ UNCHANGED <<now, fetch_generation, active_fetch_range, is_fetching,
                   poly_cache, cache_file, heatmap_cache, workers, nspawned,
                   itemVars, retryVars, groupVars, insightVars>>

\* one of the requests of a run with the workers
cRequest(h, range_val, ok) ==
    nrequests < MaxCacheRequests /\ cArrive(h, range_val, ok)

\* the body the request of h returns
ResultOf(h) ==
    HeatmapResult(ActivityList(handlers[h].range_val), handlers[h].missing_ids,
                  handlers[h].result_points)

\* app.py:2590-2598: heatmap_cache['data'] = result
cStoreData(h) ==
    /\ handlers[h].pc = "result"
    /\ heatmap_cache' = [heatmap_cache EXCEPT !.data = Some(ResultOf(h))]
    /\ handlers' = [handlers EXCEPT ![h].pc = "stamp"]
    /\ UNCHANGED <<cacheVars, fetch_generation, active_fetch_range, is_fetching,
                   poly_cache, cache_file, workers, nspawned, nrequests,
                   itemVars, retryVars, groupVars, insightVars>>

\* app.py:2599: heatmap_cache['timestamp'] = time.time()
cStoreStamp(h) ==
    /\ handlers[h].pc = "stamp"
    /\ heatmap_cache' = [heatmap_cache EXCEPT !.timestamp = Some(now)]
    /\ handlers' = [handlers EXCEPT ![h].pc = "range"]
    /\ UNCHANGED <<cacheVars, fetch_generation, active_fetch_range, is_fetching,
                   poly_cache, cache_file, workers, nspawned, nrequests,
                   itemVars, retryVars, groupVars, insightVars>>

\* the entry of the log that the request h is serving
PendingOf(h) ==
    CHOOSE i \in DOMAIN responses :
        responses[i].by = h /\ responses[i].status = 0

\* app.py:2600-2602: heatmap_cache['range'] = range_val; return jsonify(result)
cStoreRange(h) ==
    /\ handlers[h].pc = "range"
    /\ heatmap_cache' = [heatmap_cache EXCEPT !.range = Some(handlers[h].range_val)]
    /\ responses' = [responses EXCEPT ![PendingOf(h)] =
           [@ EXCEPT !.status = 200, !.body = Some(ResultOf(h))]]
    /\ handlers' = [handlers EXCEPT ![h] = IdleHandler]
    /\ UNCHANGED <<now, fetch_generation, active_fetch_range, is_fetching,
                   poly_cache, cache_file, workers, nspawned, nrequests,
                   itemVars, retryVars, groupVars, insightVars>>

(***************************************************************************)
(* get_ai_insights and generate_insights_logic (app.py:541-997) with the    *)
(* memo ai_memory and the response cache ai_insights_cache.  The runs of    *)
(* the pipeline are taken one after the other; a settings change, the clock *)
(* and the provider's list may move between any two steps of a run.         *)
(***************************************************************************)

\* the number of requests, warmups and settings changes in one behaviour
MaxInsightRuns == 3
\* the number of them that run the pipeline
MaxGenerations == 2

\* AI_CACHE_EXPIRY = 60
AI_CACHE_EXPIRY == 60

\* time.time(): the seconds since the epoch, which is never 0
time_time == now + 1

\* the activity lists of the narrative pipeline: starts that make one
\* session or two of two activities, no duration field
InsightStarts == {Stamp(9), Stamp(MaxHour)}
InsightActivity(a) ==
    a = None \/ (a.duration = None /\ a.startTimeLocal \in InsightStarts)

\* what generate_content does: it answers, or it raises for the quota or for
\* an overload, or its text is not JSON (app.py:913-929)
ModelOutcomes == {"ok", "quota", "overload", "invalid_json"}
\* the model's wording of one call
Tones == {"**Negative Split Master!**", "**Season Best!**"}

NoRun == [pc |-> "idle", caller |-> "none", at |-> 0, sessions |-> <<>>,
          payload |-> <<>>, calls |-> 0, outcome |-> "none", ai_data |-> None,
          result |-> None]

InsightsIdle ==
    /\ ai_memory = <<>>
    /\ ai_insights_cache = [data |-> None, timestamp |-> None]
    /\ insights_run = NoRun
    /\ ai_log = <<>>

InsightsInit ==
    /\ activity_list \in {l \in ActivityLists :
                             \A i \in DOMAIN l : InsightActivity(l[i])}
    /\ appended = None
    /\ groupings = <<>>
    /\ InsightsIdle

\* a faulty test that serves the stored result whatever its age
CachedInsights_stale(cache, t) ==
    /\ cache.data /= None
    /\ cache.timestamp /= None /\ cache.timestamp[1] /= 0

\* app.py:546-547: ai_insights_cache['data'] and ai_insights_cache['timestamp']
\* are truthy and now - timestamp < AI_CACHE_EXPIRY
CachedInsights(cache, t) ==
    /\ cache.data /= None
    /\ cache.timestamp /= None /\ cache.timestamp[1] /= 0
    /\ t - cache.timestamp[1] < AI_CACHE_EXPIRY

\* one entry of the log: who ran, when the run began and ended, whether the
\* response cache answered, the status and the body of the answer, the
\* sessions the run grouped, the number of model calls, what the model call
\* did, and the keys of the memo when the run returned
Answer(run, cached, status, body) ==
    [caller |-> run.caller, at |-> run.at, done |-> time_time,
     cached |-> cached, status |-> status, body |-> body,
     sessions |-> run.sessions, calls |-> run.calls, outcome |-> run.outcome,
     keys |-> DOMAIN ai_memory]

\* the runs of the pipeline that have returned
Generations ==
    Cardinality({i \in DOMAIN ai_log :
                    ~ai_log[i].cached /\ ai_log[i].caller /= "settings"})

\* app.py:541-549: a request arrives; a fresh stored result answers it
aiRequest ==
    /\ insights_run.pc = "idle"
    /\ Len(ai_log) < MaxInsightRuns
    /\ CachedInsights(ai_insights_cache, time_time) \/ Generations < MaxGenerations
    /\ IF CachedInsights(ai_insights_cache, time_time)
       THEN /\ ai_log' = Append(ai_log,
                   Answer([NoRun EXCEPT !.caller = "request", !.at = time_time],
                          TRUE, 200, ai_insights_cache.data))
            /\ UNCHANGED insights_run
       ELSE /\ insights_run' = [NoRun EXCEPT !.pc = "fetch",
                                   !.caller = "request", !.at = time_time]
            /\ UNCHANGED ai_log
    /\ UNCHANGED <<ai_memory, ai_insights_cache, heatVars, itemVars, retryVars,
                   groupVars, cacheVars>>

\* server_warmup (app.py:370-374): the pipeline is run once in advance while
\* the response cache holds no data
aiWarmup ==
    /\ insights_run.pc = "idle"
    /\ Len(ai_log) < MaxInsightRuns /\ Generations < MaxGenerations
    /\ \A i \in DOMAIN ai_log : ai_log[i].caller /= "warmup"
    /\ ~(ai_insights_cache.data /= None)
    /\ insights_run' = [NoRun EXCEPT !.pc = "fetch", !.caller = "warmup",
                                     !.at = time_time]
    /\ UNCHANGED <<ai_memory, ai_insights_cache, ai_log, heatVars, itemVars,
                   retryVars, groupVars, cacheVars>>

\* app.py:983-997: the dict the except branch returns
ErrorResult(e) ==
    [error |-> e, details |-> e, daily_summary |-> "Analysis Interrupted.",
     is_ai |-> FALSE]

\* acts_hist[:15]
RecentActs(acts) == SubSeq(acts, 1, IF Len(acts) < 15 THEN Len(acts) ELSE 15)

\* a.get('startTimeLocal', '').split(' ')[0]
RECURSIVE DatePart(_)
DatePart(text) ==
    IF text = <<>> \/ Head(text) = " " THEN <<>>
    ELSE <<Head(text)>> \o DatePart(Tail(text))

\* app.py:774-813: the stage of one activity of a new session
StageData(a) ==
    [activity_id |-> a.activityId, date |-> DatePart(a.startTimeLocal)]

\* app.py:816-822: the summary of a new session
SessionSummary(s) ==
    [session_id |-> session_id(s), is_multi_stage |-> Len(s) > 1,
     stages |-> [k \in DOMAIN s |-> StageData(s[k])]]

\* a faulty payload that sends every session in full
TrainingHistory_full(sessions, memory) ==
    [k \in DOMAIN sessions |-> SessionSummary(sessions[k])]

\* app.py:760-834: training_history_for_ai
TrainingHistory(sessions, memory) ==
    [k \in DOMAIN sessions |->
        IF session_id(sessions[k]) \in DOMAIN memory
        THEN [session_id |-> session_id(sessions[k]),
              cached_insight |-> memory[session_id(sessions[k])]]
        ELSE SessionSummary(sessions[k])]

\* app.py:565-850: the provider is read, the recent activities are grouped
\* and the payload is built; a provider call that raises, or a None in the
\* list (a.get at app.py:664), ends the run in the except branch
aiFetch(raises) ==
    /\ insights_run.pc = "fetch"
    /\ IF raises \/ \E i \in DOMAIN activity_list : activity_list[i] = None
       THEN insights_run' = [insights_run EXCEPT !.pc = "return",
                                !.outcome = "fetch_failed",
                                !.result = ErrorResult("fetch_failed")]
       ELSE LET sessions == group_activities_into_sessions(
                                RecentActs(activity_list))
            IN  insights_run' = [insights_run EXCEPT !.pc = "model",
                                    !.sessions = sessions,
                                    !.payload = TrainingHistory(sessions,
                                                                ai_memory)]
    /\ UNCHANGED <<ai_memory, ai_insights_cache, ai_log, heatVars, itemVars,
                   retryVars, groupVars, cacheVars>>

\* the activity_insights of a model answer that covers the sessions whose
\* index is in answered
ModelInsights(sessions, answered, tone) ==
    LET idx == SelectSeq([i \in DOMAIN sessions |-> i], LAMBDA i : i \in answered)
    IN  [k \in DOMAIN idx |->
            [session_id |-> session_id(sessions[idx[k]]), highlight |-> tone,
             worked_on |-> "Aerobic Power"]]

\* app.py:913-929: the model call and the parsing of its text
aiModel(outcome, answered, tone) ==
    /\ insights_run.pc = "model"
    /\ IF outcome = "ok"
       THEN insights_run' = [insights_run EXCEPT !.pc = "remember",
                                !.calls = @ + 1,
                                !.outcome = outcome,
                                !.ai_data = Some([daily_summary |-> tone,
                                    activity_insights |->
                                        ModelInsights(insights_run.sessions,
                                                      answered, tone)])]
       ELSE insights_run' = [insights_run EXCEPT !.pc = "return",
                                !.calls = @ + 1,
                                !.outcome = outcome,
                                !.result = ErrorResult(outcome)]
    /\ UNCHANGED <<ai_memory, ai_insights_cache, ai_log, heatVars, itemVars,
                   retryVars, groupVars, cacheVars>>

\* a faulty store that keeps what the memo already holds under the key
Store_absent(memory, sid, insight) ==
    IF sid \in DOMAIN memory THEN memory ELSE (sid :> insight) @@ memory

\* ai_memory['activity_summaries'][sid] = insight
Store(memory, sid, insight) == (sid :> insight) @@ memory

\* app.py:932-936: every insight of the answer is stored under its session_id
RECURSIVE Remember(_, _)
Remember(memory, insights) ==
    IF insights = <<>> THEN memory
    ELSE Remember(Store(memory, Head(insights).session_id, Head(insights)),
                  Tail(insights))

\* app.py:942-951: the placeholder of a session the model skipped
Placeholder(sid) ==
    [session_id |-> sid, highlight |-> "**Solid Consistency!**",
     worked_on |-> "Consistency"]

\* a faulty fallback that writes no placeholder
FillPlaceholders_none(memory, sessions) == memory

\* app.py:939-951
RECURSIVE FillPlaceholders(_, _)
FillPlaceholders(memory, sessions) ==
    IF sessions = <<>> THEN memory
    ELSE LET sid == session_id(Head(sessions))
         IN  FillPlaceholders(IF sid \in DOMAIN memory THEN memory
                              ELSE Store(memory, sid, Placeholder(sid)),
                              Tail(sessions))

\* app.py:932-953: the memo takes the answer's insights, then a placeholder
\* for every session that still has no entry, and is written to its file
aiRemember ==
    /\ insights_run.pc = "remember"
    /\ ai_memory' = FillPlaceholders(
                        Remember(ai_memory, insights_run.ai_data[1].activity_insights),
                        insights_run.sessions)
    /\ insights_run' = [insights_run EXCEPT !.pc = "unroll"]
    /\ UNCHANGED <<ai_insights_cache, ai_log, heatVars, itemVars, retryVars,
                   groupVars, cacheVars>>

\* a faulty copy that leaves the activity out
Unrolled_bare(insight, a) == insight

\* app.py:966-967: unrolled = insight.copy(); unrolled['activity_id'] = str(id)
Unrolled(insight, a) ==
    [f \in DOMAIN insight \cup {"activity_id"} |->
        IF f = "activity_id" THEN Str(a.activityId) ELSE insight[f]]

\* app.py:958-968
RECURSIVE Unroll(_, _)
Unroll(sessions, memory) ==
    IF sessions = <<>> THEN <<>>
    ELSE LET s == Head(sessions)
             sid == session_id(s)
         IN  (IF sid \in DOMAIN memory
              THEN [i \in DOMAIN s |-> Unrolled(memory[sid], s[i])]
              ELSE <<>>) \o Unroll(Tail(sessions), memory)

\* app.py:955-977: the result is built from the memo
aiUnroll ==
    /\ insights_run.pc = "unroll"
    /\ insights_run' = [insights_run EXCEPT !.pc = "store_data",
           !.result = [daily_summary |-> insights_run.ai_data[1].daily_summary,
                       activity_insights |-> Unroll(insights_run.sessions, ai_memory),
                       is_ai |-> TRUE]]
    /\ UNCHANGED <<ai_memory, ai_insights_cache, ai_log, heatVars, itemVars,
                   retryVars, groupVars, cacheVars>>

\* app.py:979
aiStoreData ==
    /\ insights_run.pc = "store_data"
    /\ ai_insights_cache' = [ai_insights_cache EXCEPT !.data = insights_run.result]
    /\ insights_run' = [insights_run EXCEPT !.pc = "store_stamp"]
    /\ UNCHANGED <<ai_memory, ai_log, heatVars, itemVars, retryVars, groupVars,
                   cacheVars>>

\* app.py:980
aiStoreStamp ==
    /\ insights_run.pc = "store_stamp"
    /\ ai_insights_cache' = [ai_insights_cache EXCEPT !.timestamp = Some(time_time)]
    /\ insights_run' = [insights_run EXCEPT !.pc = "return"]
    /\ UNCHANGED <<ai_memory, ai_log, heatVars, itemVars, retryVars, groupVars,
                   cacheVars>>

\* app.py:552-556: the status of the answer to a request; the warmup answers
\* nobody
StatusOf(run) ==
    IF run.caller /= "request" THEN 0
    ELSE IF "error" \in DOMAIN run.result THEN 503 ELSE 200

\* the run returns (app.py:981, 992-997) and its caller answers
aiReturn ==
    /\ insights_run.pc = "return"
    /\ ai_log' = Append(ai_log, Answer(insights_run, FALSE, StatusOf(insights_run),
                                       insights_run.result))
    /\ insights_run' = NoRun
    /\ UNCHANGED <<ai_memory, ai_insights_cache, heatVars, itemVars, retryVars,
                   groupVars, cacheVars>>

\* update_settings with 'ai_model' in the data (app.py:522-528): the response
\* cache is cleared; the entry of the log notes how far a run had come
aiSettings ==
    /\ Len(ai_log) < MaxInsightRuns
    /\ \A i \in DOMAIN ai_log : ai_log[i].caller /= "settings"
    /\ ai_insights_cache' = [timestamp |-> Some(0), data |-> None]
    /\ ai_log' = Append(ai_log,
           Answer([NoRun EXCEPT !.caller = "settings", !.at = time_time,
                                !.outcome = insights_run.pc],
                  FALSE, 200, None))
    /\ UNCHANGED <<ai_memory, insights_run, heatVars, itemVars, retryVars,
                   groupVars, cacheVars>>

-----------------------------------------------------------------------------
-----------------------------------------------------------------------------
(* The specifications *)

Init == HeatInit /\ ItemIdle /\ RetryIdle /\ GroupIdle /\ CacheIdle /\ InsightsIdle

Next ==
    \/ \E h \in Handlers, range_val \in Ranges, fresh \in BOOLEAN, ok \in BOOLEAN :
           hRequest(h, range_val, fresh, ok)
    \/ \E h \in Handlers : hScan(h)
    \/ \E h \in Handlers : hLock(h)
    \/ \E h \in Handlers : hResult(h)
    \/ \E w \in WorkerIds : wStart(w)
    \/ \E w \in WorkerIds : pCheck(w)
    \/ \E w \in WorkerIds, ok \in BOOLEAN : pFetch(w, ok)
    \/ \E w \in WorkerIds : wNext(w)
    \/ \E w \in WorkerIds : wAct(w)
    \/ \E w \in WorkerIds : wFinally(w)
    \/ \E w \in WorkerIds : wClear(w)
    \/ \E w \in WorkerIds : wSave(w)

Spec == Init /\ [][Next]_vars

InitFetchItem == HeatInit /\ ItemInit /\ RetryIdle /\ GroupIdle /\ CacheIdle /\ InsightsIdle
NextFetchItem == fiFetch \/ fiSet
SpecFetchItem == InitFetchItem /\ [][NextFetchItem]_vars

InitRetry == HeatInit /\ ItemIdle /\ RetryInit /\ GroupIdle /\ CacheIdle /\ InsightsIdle
NextRetry ==
    \/ \E outcome \in Outcomes : grCall(outcome)
    \/ grSleep
    \/ grCheck
    \/ grLogin
SpecRetry == InitRetry /\ [][NextRetry]_vars

InitGroup == HeatInit /\ ItemIdle /\ RetryIdle /\ GroupInit /\ CacheIdle /\ InsightsIdle
NextGroup ==
    \/ ggGroup
    \/ \E b \in NewActivities : ggAppend(b)
SpecGroup == InitGroup /\ [][NextGroup]_vars

\* the steps of the thread of worker w and of the one thread of its pool
ThreadStep(w) ==
    wStart(w) \/ wNext(w) \/ wAct(w) \/ wFinally(w) \/ wClear(w) \/ wSave(w)
PoolStep(w) == pCheck(w) \/ \E ok \in BOOLEAN : pFetch(w, ok)

\* a started thread is scheduled again and again until it returns, and a
\* detail call returns or raises (garmin_request gives up after 3 attempts)
Fairness ==
    \A w \in WorkerIds : WF_vars(ThreadStep(w)) /\ WF_vars(PoolStep(w))

\* the requests that arrive in one run under fair scheduling
MaxLiveRequests == 2

NextLive ==
    \/ \E h \in Handlers, range_val \in Ranges, fresh \in BOOLEAN, ok \in BOOLEAN :
           nrequests < MaxLiveRequests /\ hArrive(h, range_val, fresh, ok)
    \/ \E h \in Handlers : hScan(h)
    \/ \E h \in Handlers : hLock(h)
    \/ \E h \in Handlers : hResult(h)
    \/ \E w \in WorkerIds : wStart(w)
    \/ \E w \in WorkerIds : pCheck(w)
    \/ \E w \in WorkerIds, ok \in BOOLEAN : pFetch(w, ok)
    \/ \E w \in WorkerIds : wNext(w)
    \/ \E w \in WorkerIds : wAct(w)
    \/ \E w \in WorkerIds : wFinally(w)
    \/ \E w \in WorkerIds : wClear(w)
    \/ \E w \in WorkerIds : wSave(w)
SpecLive == Init /\ [][NextLive]_vars /\ Fairness

NextCache ==
    \/ cTick
    \/ \E h \in Handlers, range_val \in Ranges, ok \in BOOLEAN :
           cRequest(h, range_val, ok)
    \/ \E h \in Handlers : hScan(h)
    \/ \E h \in Handlers : hLock(h)
    \/ \E h \in Handlers : cStoreData(h)
    \/ \E h \in Handlers : cStoreStamp(h)
    \/ \E h \in Handlers : cStoreRange(h)
    \/ \E w \in WorkerIds : wStart(w)
    \/ \E w \in WorkerIds : pCheck(w)
    \/ \E w \in WorkerIds, ok \in BOOLEAN : pFetch(w, ok)
    \/ \E w \in WorkerIds : wNext(w)
    \/ \E w \in WorkerIds : wAct(w)
    \/ \E w \in WorkerIds : wFinally(w)
    \/ \E w \in WorkerIds : wClear(w)
    \/ \E w \in WorkerIds : wSave(w)
SpecCache == Init /\ [][NextCache]_vars

\* the request threads and the clock; the threads of the workers that the
\* requests start are not scheduled before the requests are answered
NextSlot ==
    \/ cTick
    \/ \E h \in Handlers, range_val \in Ranges, ok \in BOOLEAN :
           nrequests < MaxSlotRequests /\ cArrive(h, range_val, ok)
    \/ \E h \in Handlers : hScan(h)
    \/ \E h \in Handlers : hLock(h)
    \/ \E h \in Handlers : cStoreData(h)
    \/ \E h \in Handlers : cStoreStamp(h)
    \/ \E h \in Handlers : cStoreRange(h)
SpecSlot == Init /\ [][NextSlot]_vars

\* the clock is read when a run begins and at app.py:980, the provider's list
\* at app.py:639: they move before these reads; the response cache is
\* written at app.py:979-980: the settings change before a run, or beside
\* these writes
InitInsights == HeatInit /\ ItemIdle /\ RetryIdle /\ InsightsInit /\ CacheIdle
NextInsights ==
    \/ aiRequest
    \/ aiWarmup
    \/ \E raises \in BOOLEAN : aiFetch(raises)
    \/ \E outcome \in ModelOutcomes, tone \in Tones,
          answered \in SUBSET DOMAIN insights_run.sessions :
          aiModel(outcome, answered, tone)
    \/ aiRemember
    \/ aiUnroll
    \/ aiStoreData
    \/ aiStoreStamp
    \/ aiReturn
    \/ insights_run.pc \in {"idle", "store_data", "store_stamp", "return"} /\ aiSettings
    \/ insights_run.pc \in {"idle", "store_stamp"} /\ now < AI_CACHE_EXPIRY /\ cTick
    \/ /\ insights_run.pc = "idle"
       /\ \E b \in {x \in NewActivities : InsightActivity(x)} : ggAppend(b)
SpecInsights == InitInsights /\ [][NextInsights]_vars

-----------------------------------------------------------------------------
(* Properties of the heatmap pipeline *)

\* a worker that is fetching: its thread was started and it has not reached
\* its finally block
Live(w) == workers[w].pc \in {"start", "loop", "act"}

\* worker w executes `is_fetching = False` (app.py:454) in this step
Clears(w) == workers[w].pc = "clear" /\ workers'[w].pc = "save"

\* worker w takes a step of its own (either of its two threads)
Steps(w) == workers'[w] /= workers[w] /\ workers[w].pc /= "none"

(* C1: a worker whose captured generation is no longer the live
   fetch_generation never sets is_fetching to False. *)
C1_StaleWorkerNeverClears ==
    [][\A w \in WorkerIds :
          Clears(w) => workers[w].generation_id = fetch_generation]_vars

(* C2: once a worker has observed, at one of its generation checks, that
   fetch_generation differs from its generation_id, no later step of that
   worker writes the polyline cache or sets is_fetching. *)
C2_NoWriteAfterObservedMismatch ==
    [][\A w \in WorkerIds :
          (workers[w].observed /\ Steps(w))
              => (poly_cache' = poly_cache /\ is_fetching' = is_fetching)]_vars

(* C3: at any time at most one live worker has a captured generation equal to
   the live fetch_generation. *)
C3_OneWorkerPerGeneration ==
    Cardinality({w \in WorkerIds :
                    Live(w) /\ workers[w].generation_id = fetch_generation}) <= 1

\* worker w executes poly_cache.set(a, ...) (app.py:445) in this step
SetsKey(w, a) ==
    /\ workers[w].pc = "act" /\ workers'[w].pc = "loop"
    /\ workers[w].res /= None /\ workers[w].res[1][1] = a

(* C4: no step removes a key of the polyline cache, and get(a) returns the
   same value before and after every step that is not a set(a, ...). *)
C4_CacheKeysPersist ==
    [][\A a \in DOMAIN poly_cache :
          /\ a \in DOMAIN poly_cache'
          /\ (\A w \in WorkerIds : ~SetsKey(w, a))
                => poly_cache_get(poly_cache', a) = poly_cache_get(poly_cache, a)]_vars

\* two ids were stored beside the one loaded at the start, which kept its value
C4_ThreeKeys ==
    /\ DOMAIN poly_cache = {101, 102, 103}
    /\ poly_cache[101] = InitialCache[101]

\* the activities the provider lists, and those of them a scan may report
Listed == UNION {{ActivityList(r)[i] : i \in DOMAIN ActivityList(r)} : r \in Ranges}
CandidateIds == {act.activityId : act \in {x \in Listed : IsCandidate(x)}}

\* the ids of a sequence
Ids(seq) == {seq[i] : i \in DOMAIN seq}

(* C5: a request appends to missing_ids only an id that is absent from the
   polyline cache at that moment; the ids a worker submits at its start are
   absent from the cache and candidates; and every detail fetch a worker
   issues is for an id it submitted at its start. *)
C5_PresentKeyNeverRetried ==
    [][/\ \A h \in Handlers :
             Len(handlers'[h].missing_ids) > Len(handlers[h].missing_ids)
                => LET aid == handlers'[h].missing_ids[Len(handlers'[h].missing_ids)]
                   IN  aid \notin DOMAIN poly_cache /\ aid \in CandidateIds
       /\ \A w \in WorkerIds :
             /\ (workers[w].pc = "start" /\ workers'[w].pc = "loop")
                   => /\ Ids(workers'[w].queue) \cap DOMAIN poly_cache = {}
                      /\ Ids(workers'[w].queue) \subseteq CandidateIds
             /\ (workers[w].pc \in {"loop", "act", "exit"})
                   => /\ Ids(workers'[w].queue) \subseteq Ids(workers[w].queue)
                      /\ workers'[w].inflight \in
                            {None, workers[w].inflight} \cup
                            {Some(aid) : aid \in Ids(workers[w].queue)}]_vars

\* a request has scanned activity 102, found it cached with an empty list and
\* left it out of missing_ids
C5_EmptyEntrySkipped ==
    \E h \in Handlers :
        /\ handlers[h].pc = "result" /\ handlers[h].range_val = "this_year"
        /\ 102 \in DOMAIN poly_cache /\ poly_cache[102] = <<>>
        /\ 102 \notin Ids(handlers[h].missing_ids)

\* the text s contains word, whatever the case of the letters of s
Mentions(s, word) ==
    \E i \in 1..(Len(s) - Len(word) + 1) :
        \A j \in 1..Len(word) : LowerChar(s[i + j - 1]) = word[j]

\* a non-null startLatitude, or a type key containing 'virtual' or
\* 'indoor_cycling'
Eligible(act) ==
    \/ act.startLatitude /= None
    \/ /\ act.typeKey /= None
       /\ \/ Mentions(act.typeKey[1], virtual_word)
          \/ Mentions(act.typeKey[1], indoor_cycling_key)

(* C6: each iteration of the scan adds the activity to data exactly when its
   id is in the polyline cache with a non-empty point list, and to missing_ids
   exactly when its id is absent from the cache and it has a non-null
   startLatitude or a type key containing 'virtual' or 'indoor_cycling'; the
   response's count and missing_count are the lengths of the two lists, their
   sum is at most total_activities, and every step of a request can be taken
   whatever the workers are doing. *)
C6_ResponseCounts ==
    /\ [][\A h \in Handlers :
          LET me == handlers[h]
              acts == ActivityList(me.range_val)
          IN  /\ (me.pc = "scan" /\ handlers'[h] /= me)
                    => LET act == acts[me.idx]
                           aid == act.activityId
                           entry == [id |-> aid, type |-> act.typeKey,
                                     poly |-> poly_cache[aid]]
                       IN  /\ handlers'[h].result_points =
                                 IF aid \in DOMAIN poly_cache /\ poly_cache[aid] /= <<>>
                                 THEN Append(me.result_points, entry)
                                 ELSE me.result_points
                           /\ handlers'[h].missing_ids =
                                 IF aid \notin DOMAIN poly_cache /\ Eligible(act)
                                 THEN Append(me.missing_ids, aid)
                                 ELSE me.missing_ids
              /\ me.pc = "result"
                    => LET body == HeatmapResult(acts, me.missing_ids, me.result_points)
                       IN  /\ body.data = me.result_points
                           /\ body.count = Len(me.result_points)
                           /\ body.missing_count = Len(me.missing_ids)
                           /\ body.total_activities = Len(acts)
                           /\ body.count + body.missing_count <= body.total_activities
                           /\ \A i, j \in DOMAIN body.data :
                                 body.data[i].id = body.data[j].id => i = j]_vars
    /\ [](\A h \in Handlers :
            handlers[h].pc /= "idle" => ENABLED (hScan(h) \/ hLock(h) \/ hResult(h)))

\* a response for this_year holds the entry of 101 and counts 102 as missing
\* while a worker is fetching
C6_ResponseBesideWorker ==
    \E h \in Handlers :
        /\ handlers[h].pc = "result" /\ handlers[h].range_val = "this_year"
        /\ Len(handlers[h].result_points) = 1
        /\ handlers[h].result_points[1].id = 101
        /\ handlers[h].missing_ids = <<102>>
        /\ \E w \in WorkerIds : Live(w)

\* request h passes the scheduling decision of app.py:2566-2588 in this step,
\* through the critical section or around it
Decides(h) ==
    handlers[h].pc \in {"scan", "lock"} /\ handlers'[h].pc = "result"

\* the step starts worker number nspawned + 1 under the generation that is
\* live after it, for the ids the request found missing
SpawnsFor(h) ==
    /\ nspawned' = nspawned + 1
    /\ workers'[nspawned'].pc = "start"
    /\ workers'[nspawned'].generation_id = fetch_generation'
    /\ workers'[nspawned'].activity_ids = handlers[h].missing_ids

\* the range change of the scheduler, made for request h
ChangesRange(h) ==
    /\ fetch_generation' = fetch_generation + 1
    /\ active_fetch_range' = Some(handlers[h].range_val)
    /\ is_fetching' = TRUE
    /\ SpawnsFor(h)
    /\ \A w \in 1..nspawned : workers'[w].generation_id /= fetch_generation'

(* C18, as the code has it: a request enters the critical section only with a
   non-empty missing_ids, and when it does so for a range other than
   active_fetch_range, fetch_generation grows by exactly one,
   active_fetch_range becomes its range, is_fetching becomes True, a worker is
   started under the new generation for the missing ids, and no worker
   started before has the new generation. *)
C18_RangeChangeWithMissing ==
    [][\A h \in Handlers :
          /\ handlers[h].pc = "lock" => handlers[h].missing_ids /= <<>>
          /\ (/\ handlers[h].pc = "lock" /\ Decides(h)
              /\ Some(handlers[h].range_val) /= active_fetch_range)
                => ChangesRange(h)]_vars

\* the range was changed while the worker of the range before was fetching
C18_SecondRangeStarted ==
    /\ fetch_generation = 2
    /\ workers[1].generation_id = 1 /\ workers[1].pc = "loop"
    /\ workers[2].generation_id = 2 /\ workers[2].pc = "start"

(* C18, as stated: whenever a request for a range other than
   active_fetch_range passes the scheduling decision, the range change is
   made. *)
C18_RangeChangeAlways ==
    [][\A h \in Handlers :
          (Decides(h) /\ Some(handlers[h].range_val) /= active_fetch_range)
              => ChangesRange(h)]_vars

(* C19: fetch_generation never decreases; it changes only by +1 and only in
   the critical section of a request, so in no step of a worker; and a worker
   that is started captures the generation that is live when it is started. *)
C19_GenerationMonotone ==
    [][/\ fetch_generation' >= fetch_generation
       /\ fetch_generation' /= fetch_generation
             => /\ fetch_generation' = fetch_generation + 1
                /\ \E h \in Handlers :
                      handlers[h].pc = "lock" /\ handlers'[h].pc = "result"
       /\ (\E w \in WorkerIds : Steps(w)) => fetch_generation' = fetch_generation
       /\ nspawned' /= nspawned
             => /\ nspawned' = nspawned + 1
                /\ workers'[nspawned'].generation_id = fetch_generation']_vars

\* three workers were started; the first holds generation 1, the last 2
C19_ThreeWorkersTwoGenerations ==
    /\ nspawned = 3
    /\ fetch_generation = 2
    /\ workers[1].generation_id = 1
    /\ workers[3].generation_id = 2 /\ workers[3].pc = "start"

\* worker w executes poly_cache.save() (app.py:448-449, 455) in this step
Saves(w) ==
    \/ workers[w].pc = "save" /\ workers'[w].pc = "done"
    \/ /\ workers[w].pc = "act" /\ workers'[w].pc = "loop"
       /\ workers[w].res /= None
       /\ workers'[w].count % SaveEvery = 0

(* C20: a worker executes poly_cache.save() only while fetch_generation
   equals its captured generation. *)
C20_NoStaleSave ==
    [][\A w \in WorkerIds :
          Saves(w) => workers[w].generation_id = fetch_generation]_vars

-----------------------------------------------------------------------------
(* Properties of the heatmap response in time *)

\* the ids that have an entry in the data of a body
DataIds(body) == {body.data[e].id : e \in DOMAIN body.data}

\* the answer r carries every polyline that was in the polyline cache, not
\* empty, when its request arrived, and counts as missing at most the listed
\* candidates that had no such polyline then
SeesKnown(r) ==
    LET acts == ActivityList(r.range_val)
        body == r.body[1]
    IN  /\ \A k \in DOMAIN acts :
              LET aid == acts[k].activityId
              IN  (aid \in DOMAIN r.known /\ r.known[aid] /= <<>>)
                     => \E e \in DOMAIN body.data :
                           /\ body.data[e].id = aid
                           /\ body.data[e].poly = r.known[aid]
        /\ body.missing_count <=
              Cardinality({k \in DOMAIN acts :
                              /\ ~(/\ acts[k].activityId \in DOMAIN r.known
                                    /\ r.known[acts[k].activityId] /= <<>>)
                              /\ acts[k].activityId \in CandidateIds})

(* C16, as the code has it: a request that is not answered from the response
   cache returns every polyline that was in the polyline cache, not empty,
   when it arrived, and does not count such an activity as missing; a request
   answered from the response cache returns a stored body. *)
C16_ComputedResponseSeesPolyline ==
    \A i \in DOMAIN responses :
        LET r == responses[i]
        IN  /\ (r.status = 200 /\ ~r.cached) => SeesKnown(r)
            /\ r.cached => (r.status = 200 /\ r.body /= None)

\* a first answer for this_month had no entry for 103; the worker stored its
\* polyline; a later request for this_month, computed afresh, returned it
C16_LaterRequestHas103 ==
    \E i, j \in DOMAIN responses :
        /\ i < j
        /\ responses[i].range_val = "this_month" /\ responses[i].status = 200
        /\ 103 \notin DataIds(responses[i].body[1])
        /\ responses[j].range_val = "this_month" /\ responses[j].status = 200
        /\ ~responses[j].cached
        /\ 103 \in DataIds(responses[j].body[1])

(* C16, as stated: every answered request returns every polyline that was in
   the polyline cache, not empty, when it arrived. *)
C16_NextRequestSeesPolyline ==
    \A i \in DOMAIN responses :
        responses[i].status = 200 => SeesKnown(responses[i])

-----------------------------------------------------------------------------
(* Properties of fetch_item *)

(* C7: every point list stored in the polyline cache has at most 500 points,
   whatever the length of the provider's raw polyline. *)
C7_AtMost500Points ==
    \A a \in DOMAIN item_cache : Len(item_cache[a]) <= 500

-----------------------------------------------------------------------------
(* Properties of garmin_request *)

(* C8: the wrapped operation is called at most 3 times; a successful attempt
   is the last one and its value is returned; the call sleeps 2s after the
   first failure and 4s after the second; after 3 failures the exception of
   the third attempt is raised. *)
C8_ThreeAttemptsBackoff ==
    LET n == Len(gr.outcomes)
    IN  /\ n <= 3
        /\ \A i \in 1..n : gr.outcomes[i].ok => (i = n /\ gr.pc = "returned")
        /\ gr.waits = SubSeq(<<2, 4>>, 1, Len(gr.waits))
        /\ gr.pc = "call" => Len(gr.waits) = n
        /\ gr.pc = "returned"
              => /\ gr.outcomes[n].ok
                 /\ gr.result = Some(gr.outcomes[n].value)
                 /\ gr.raised = None
                 /\ Len(gr.waits) = n - 1
        /\ gr.pc = "raised"
              => /\ n = 3
                 /\ gr.raised = Some(gr.outcomes[3].text)
                 /\ gr.result = None
                 /\ gr.waits = <<2, 4>>

\* three attempts failed and the exception raised is not that of the first
C8_ThirdExceptionRaised ==
    /\ gr.pc = "raised"
    /\ gr.outcomes[1].text /= gr.outcomes[3].text
    /\ gr.raised = Some(gr.outcomes[3].text)

\* the error texts that contain 'session', 'login', 'auth' or 'expired'
MatchingTexts == {session_expired, login_failed, unauthorized}

\* the attempts (numbered from 0) among the first two that failed with a
\* matching text
EarlyMatchingFailures(outcomes) ==
    SelectSeq(<<0, 1>>, LAMBDA k : /\ k + 1 <= Len(outcomes)
                                   /\ ~outcomes[k + 1].ok
                                   /\ outcomes[k + 1].text \in MatchingTexts)

(* C9, as the code has it: the handle is set to None exactly once for each of
   the first two attempts that fails with a text containing 'session',
   'login', 'auth' or 'expired' in any letter case; a failure with another
   text, and every failure of the third attempt, leaves the handle as it is;
   a call that fails twice with 'Session expired' and then succeeds returns
   the value of the third attempt. *)
C9_DiscardOnEarlyFailures ==
    [][gr' /= gr =>
          LET n == Len(gr.outcomes)
          IN  /\ gr.pc = "check"
                    => IF gr.outcomes[n].text \in MatchingTexts
                       THEN /\ garmin_client' = None
                            /\ gr'.discards = Append(gr.discards, n - 1)
                       ELSE /\ garmin_client' = garmin_client
                            /\ gr'.discards = gr.discards
              /\ gr.pc /= "check"
                    => garmin_client' = garmin_client /\ gr'.discards = gr.discards
              /\ gr'.pc \in {"call", "returned", "raised"}
                    => gr'.discards = EarlyMatchingFailures(gr'.outcomes)
              /\ (/\ gr'.pc = "returned" /\ n = 2
                  /\ gr.outcomes[1].text = session_expired
                  /\ gr.outcomes[2].text = session_expired)
                    => gr'.result = Some(gr'.outcomes[3].value)]_vars

\* a call whose first and third attempts failed with 'Session expired' and
\* whose second timed out: the handle was discarded for the first only
C9_DiscardedForFirstOnly ==
    /\ gr.pc = "raised"
    /\ gr.outcomes[1].text = session_expired
    /\ gr.outcomes[2].text = read_timed_out
    /\ gr.outcomes[3].text = session_expired
    /\ gr.discards = <<0>>

(* C9, as stated: when the call has ended, the handle has been discarded once
   for each failed attempt whose text contains one of the four words. *)
C9_DiscardOnEveryMatchingFailure ==
    gr.pc \in {"returned", "raised"}
        => Len(gr.discards) =
              Cardinality({i \in DOMAIN gr.outcomes :
                              /\ ~gr.outcomes[i].ok
                              /\ gr.outcomes[i].text \in MatchingTexts})

-----------------------------------------------------------------------------
(* Properties of the session grouper *)

\* the activities of a list whose start parses, their start and end in
\* seconds, and the one of them that is walked last
Timed(acts) ==
    {i \in DOMAIN acts :
        acts[i] /= None /\ ParseStart(acts[i].startTimeLocal) /= None}
StartOf(a) == ParseStart(a.startTimeLocal)[1]
EndOf(a) == StartOf(a) + (IF a.duration = None THEN 0 ELSE a.duration[1])
LastTimed(acts) ==
    CHOOSE i \in Timed(acts) :
        \A k \in Timed(acts) :
            \/ StartOf(acts[k]) < StartOf(acts[i])
            \/ StartOf(acts[k]) = StartOf(acts[i]) /\ k <= i

\* no activity of the list sorts after b
SortsLast(acts, b) ==
    \A i \in DOMAIN acts :
        acts[i] /= None => ~StrLess(b.startTimeLocal, acts[i].startTimeLocal)

(* C10: two groupings of the same list have the same session keys; when an
   activity with a parseable start that sorts last is appended, then, if it
   starts less than 2 hours after the end of the last activity walked, the key
   of the most recent session gets "|" and its id appended and every other key
   is unchanged, and otherwise one session with its id alone is added before
   the unchanged keys. *)
C10_SessionKeys ==
    \A i, j \in DOMAIN groupings :
        LET before == groupings[i]
            after == groupings[j]
        IN  /\ before.of = after.of => before.keys = after.keys
            /\ (/\ appended /= None
                /\ after.of = Append(before.of, appended[1])
                /\ ParseStart(appended[1].startTimeLocal) /= None
                /\ SortsLast(before.of, appended[1])
                /\ Timed(before.of) /= {})
                  => LET b == appended[1]
                         gap == StartOf(b) - EndOf(before.of[LastTimed(before.of)])
                     IN  IF gap < 7200
                         THEN after.keys =
                                 <<before.keys[1] \o <<"|", "1", "2">>>>
                                     \o Tail(before.keys)
                         ELSE after.keys = <<<<"1", "2">>>> \o before.keys

\* a list of two sessions was grouped, then grouped again with an activity
\* appended that joined the most recent session
C10_JoinedMostRecent ==
    \E i, j \in DOMAIN groupings :
        /\ appended /= None
        /\ groupings[j].of = Append(groupings[i].of, appended[1])
        /\ Len(groupings[i].keys) = 2 /\ Len(groupings[j].keys) = 2
        /\ groupings[j].keys[1] = groupings[i].keys[1] \o <<"|", "1", "2">>
        /\ groupings[j].keys[2] = groupings[i].keys[2]

\* the activities of a list of sessions, and the non-null entries of a list
Members(sessions) ==
    UNION {{sessions[i][k] : k \in DOMAIN sessions[i]} : i \in DOMAIN sessions}
Entries(acts) == {acts[i] : i \in DOMAIN acts} \ {None}

RECURSIVE TotalLen(_)
TotalLen(sessions) ==
    IF sessions = <<>> THEN 0 ELSE Len(Head(sessions)) + TotalLen(Tail(sessions))

(* C11: the sessions returned for a list hold exactly its non-null entries,
   each once, and none is empty; a list without non-null entries gives no
   session and one non-null entry gives one singleton session; of two
   sessions the earlier in the result has the later starts, as strings and,
   where both parse, as times. *)
C11_SessionsPartitionInput ==
    \A g \in DOMAIN groupings :
        LET acts == groupings[g].of
            sessions == groupings[g].sessions
        IN  /\ Members(sessions) = Entries(acts)
            /\ TotalLen(sessions) = Cardinality(Entries(acts))
            /\ \A i \in DOMAIN sessions : sessions[i] /= <<>>
            /\ Entries(acts) = {} => sessions = <<>>
            /\ (\E a \in Entries(acts) : Entries(acts) = {a})
                  => \E a \in Entries(acts) : sessions = << <<a>> >>
            /\ \A i, j \in DOMAIN sessions :
                  i < j => \A a \in Members(<<sessions[i]>>),
                              b \in Members(<<sessions[j]>>) :
                               /\ ~StrLess(a.startTimeLocal, b.startTimeLocal)
                               /\ (/\ ParseStart(a.startTimeLocal) /= None
                                   /\ ParseStart(b.startTimeLocal) /= None)
                                     => StartOf(a) >= StartOf(b)

\* a list with a null entry and two activities was grouped into two sessions,
\* the one that starts later first
C11_TwoSessionsBesideNull ==
    \E g \in DOMAIN groupings :
        /\ \E i \in DOMAIN groupings[g].of : groupings[g].of[i] = None
        /\ Len(groupings[g].sessions) = 2
        /\ ParseStart(groupings[g].sessions[1][1].startTimeLocal) /= None
        /\ ParseStart(groupings[g].sessions[2][1].startTimeLocal) /= None
        /\ StartOf(groupings[g].sessions[1][1]) > StartOf(groupings[g].sessions[2][1])

-----------------------------------------------------------------------------
(* Properties of the narrative pipeline *)

\* the entries of the log that are runs of the pipeline
IsRun(e) == e.caller /= "settings" /\ ~e.cached

\* the model call of the run failed
ModelFailed(e) == e.outcome \in ModelOutcomes \ {"ok"}

\* the ids under which the body of an answer holds a narrative
NarratedIds(body) ==
    IF "activity_insights" \in DOMAIN body
    THEN {body.activity_insights[j].activity_id : j \in DOMAIN body.activity_insights}
    ELSE {}

(* C12: when a run of the pipeline has returned, the key of every session it
   grouped is in the memo and every activity of the session has an entry in
   activity_insights, whether the model call answered, skipped sessions or
   failed. *)
C12_EverySessionNarrated ==
    \A n \in DOMAIN ai_log :
        IsRun(ai_log[n]) =>
            \A k \in DOMAIN ai_log[n].sessions :
                LET s == ai_log[n].sessions[k]
                IN  /\ session_id(s) \in ai_log[n].keys
                    /\ \A i \in DOMAIN s :
                          Str(s[i].activityId) \in NarratedIds(ai_log[n].body)

(* C13: a request whose model call failed is answered with status 200, with
   is_ai false and with a narrative for every activity of its sessions. *)
C13_ModelFailureStillSucceeds ==
    \A n \in DOMAIN ai_log :
        (ai_log[n].caller = "request" /\ ModelFailed(ai_log[n])) =>
            /\ ai_log[n].status = 200
            /\ ai_log[n].body.is_ai = FALSE
            /\ \A k \in DOMAIN ai_log[n].sessions :
                  \A i \in DOMAIN ai_log[n].sessions[k] :
                      Str(ai_log[n].sessions[k][i].activityId)
                          \in NarratedIds(ai_log[n].body)

(* C14: in the result of a run, the entries of a session of n activities are
   n in number, the i-th carries the id of the i-th activity as a string,
   and each has the fields of the session's memo entry unchanged and no
   other field than activity_id beside them. *)
C14_UnrolledPerActivity ==
    "activity_insights" \in DOMAIN insights_run.result =>
        \A k \in DOMAIN insights_run.sessions :
            LET s == insights_run.sessions[k]
                insight == ai_memory[session_id(s)]
                mine == SelectSeq(insights_run.result.activity_insights,
                                  LAMBDA e : e.session_id = session_id(s))
            IN  /\ Len(mine) = Len(s)
                /\ \A i \in DOMAIN mine :
                      /\ DOMAIN mine[i] = DOMAIN insight \cup {"activity_id"}
                      /\ mine[i].activity_id = Str(s[i].activityId)
                      /\ \A f \in DOMAIN insight \ {"activity_id"} :
                            mine[i][f] = insight[f]

\* a run is about to return a result in which a session of two activities
\* has its two entries, beside another session
C14_TwoActivitySessionUnrolled ==
    /\ insights_run.pc = "return"
    /\ "activity_insights" \in DOMAIN insights_run.result
    /\ Len(insights_run.sessions) = 2
    /\ \E k \in DOMAIN insights_run.sessions : Len(insights_run.sessions[k]) = 2
    /\ Len(insights_run.result.activity_insights) = 3

(* C15, as the code has it: no step removes a key of the memo; the entry of a
   key changes only in the step that takes the model's answer into the memo
   (app.py:932-936), and only to an insight of that answer with this
   session_id; after that step every insight of the answer is the entry of
   its session_id, whether or not the key was there before. *)
C15_MemoKeptOrRefreshed ==
    [][/\ \A K \in DOMAIN ai_memory :
             /\ K \in DOMAIN ai_memory'
             /\ ai_memory'[K] /= ai_memory[K] =>
                   /\ insights_run.pc = "remember"
                   /\ \E j \in DOMAIN insights_run.ai_data[1].activity_insights :
                         /\ insights_run.ai_data[1].activity_insights[j].session_id = K
                         /\ insights_run.ai_data[1].activity_insights[j] = ai_memory'[K]
       /\ (insights_run.pc = "remember" /\ insights_run'.pc = "unroll") =>
             \A j \in DOMAIN insights_run.ai_data[1].activity_insights :
                 ai_memory'[insights_run.ai_data[1].activity_insights[j].session_id]
                     = insights_run.ai_data[1].activity_insights[j]
      ]_vars

\* two runs answered for the same activity, with different narratives: the
\* entry of its session was replaced
C15_NarrativeRefreshed ==
    \E n, m \in DOMAIN ai_log :
        /\ n < m
        /\ ai_log[n].outcome = "ok" /\ ai_log[m].outcome = "ok"
        /\ ai_log[n].sessions = ai_log[m].sessions
        /\ \E i \in DOMAIN ai_log[n].body.activity_insights,
              j \in DOMAIN ai_log[m].body.activity_insights :
              /\ ai_log[n].body.activity_insights[i].session_id
                    = ai_log[m].body.activity_insights[j].session_id
              /\ ai_log[n].body.activity_insights[i].highlight
                    /= ai_log[m].body.activity_insights[j].highlight

(* C15, as stated: no step removes or replaces an entry of the memo. *)
C15_MemoNeverReplaced ==
    [][\A K \in DOMAIN ai_memory :
           K \in DOMAIN ai_memory' /\ ai_memory'[K] = ai_memory[K]]_vars

\* the runs logged before entry n that stored a result, and the last of them
Stored(n) == {m \in DOMAIN ai_log : m < n /\ ai_log[m].outcome = "ok"}
LastStored(n) == CHOOSE m \in Stored(n) : \A k \in Stored(n) : k <= m

\* the settings were changed after run m had stored its data (app.py:979) and
\* before entry n: after the run returned, or while it stood before
\* app.py:980 or before its return
ClearedSince(m, n) ==
    \E k \in DOMAIN ai_log :
        /\ ai_log[k].caller = "settings"
        /\ k < n
        /\ k > m \/ (k = m - 1 /\ ai_log[k].outcome \in {"store_stamp", "return"})

(* C17, as the code has it: the response cache never holds a result with an
   error; a request is answered from it exactly when a run has stored a
   result, the request arrives less than AI_CACHE_EXPIRY seconds after the
   last such run stamped it, and the settings were not changed in between;
   such an answer is the stored result with status 200 and without a run of
   the pipeline, and every other request runs the pipeline. *)
C17_FreshUnlessCleared ==
    /\ "error" \notin DOMAIN ai_insights_cache.data
    /\ \A n \in DOMAIN ai_log :
          ai_log[n].caller = "request" =>
              /\ ai_log[n].cached <=>
                    /\ Stored(n) /= {}
                    /\ ai_log[n].at - ai_log[LastStored(n)].done < AI_CACHE_EXPIRY
                    /\ ~ClearedSince(LastStored(n), n)
              /\ ai_log[n].cached =>
                    /\ ai_log[n].status = 200
                    /\ ai_log[n].outcome = "none"
                    /\ ai_log[n].body = ai_log[LastStored(n)].body
              /\ ~ai_log[n].cached => ai_log[n].outcome /= "none"

\* a run stored a result, a request was answered from the cache, and a
\* request a TTL after the run ran the pipeline again
C17_HitThenRegenerated ==
    \E n, m, l \in DOMAIN ai_log :
        /\ n < m /\ m < l
        /\ ai_log[n].outcome = "ok"
        /\ ai_log[m].caller = "request" /\ ai_log[m].cached
        /\ ai_log[l].caller = "request" /\ ~ai_log[l].cached
        /\ ai_log[l].at - ai_log[n].done >= AI_CACHE_EXPIRY

(* C17, as stated: every request that arrives less than AI_CACHE_EXPIRY
   seconds after the last run that stored a result is answered from the
   cache, without a run of the pipeline. *)
C17_FreshAfterGeneration ==
    \A n \in DOMAIN ai_log :
        (/\ ai_log[n].caller = "request"
         /\ Stored(n) /= {}
         /\ ai_log[n].at - ai_log[LastStored(n)].done < AI_CACHE_EXPIRY)
            => ai_log[n].cached /\ ai_log[n].outcome = "none"

-----------------------------------------------------------------------------
(* Properties of a failed detail fetch in a worker *)

(* C21: the step in which a worker's loop takes up a failed fetch (res is
   None) writes nothing to the polyline cache or to its file, counts
   nothing, and leaves the worker in its loop with every pending id, every
   running fetch and every finished future as they were; a key comes into
   the polyline cache only with the point list of a fetch that returned;
   and a worker that leaves its with block while its generation is the live
   one goes on to is_fetching = False. *)
C21_FailedFetchSkipped ==
    [][/\ \A w \in WorkerIds :
             (workers[w].pc = "act" /\ workers[w].res = None
                 /\ workers'[w].pc /= "act") =>
                 /\ poly_cache' = poly_cache
                 /\ cache_file' = cache_file
                 /\ workers'[w] = [workers[w] EXCEPT !.pc = "loop"]
       /\ \A k \in DOMAIN poly_cache' \ DOMAIN poly_cache :
             \E w \in WorkerIds :
                 workers[w].res = Some(<<k, fetch_item_poly(ActivityDetails(k))>>)
       /\ \A w \in WorkerIds :
             (LeavesWith(workers[w]) /\ workers'[w] /= workers[w]
                 /\ workers[w].generation_id = fetch_generation) =>
                 workers'[w].pc = "clear"
       /\ \A w \in WorkerIds :
             (workers[w].pc = "clear" /\ workers'[w].pc /= "clear") =>
                 ~is_fetching'
      ]_vars

\* a worker of the live generation whose fetch of 102 failed went on to
\* fetch and store 103, and has set is_fetching = False
C21_Fetched103After102Failed ==
    \E w \in WorkerIds :
        /\ workers[w].pc = "save"
        /\ workers[w].generation_id = fetch_generation
        /\ workers[w].count = 1
        /\ 102 \notin DOMAIN poly_cache
        /\ 103 \in DOMAIN poly_cache
        /\ ~is_fetching

-----------------------------------------------------------------------------
(* Properties of garmin_request and the client of its attempts *)

(* C22: an attempt that follows an attempt for which the handle was
   discarded runs against a client that no earlier attempt of the call ran
   against. *)
C22_RetryOnFreshClient ==
    \A i \in DOMAIN gr.against :
        (\E d \in DOMAIN gr.discards : gr.discards[d] = i - 2) =>
            \A k \in 1..(i - 1) : gr.against[i] /= gr.against[k]

-----------------------------------------------------------------------------
(* Properties of the walk of the session grouper *)

\* the sessions of a result, oldest first, laid end to end
RECURSIVE Flat(_)
Flat(sessions) ==
    IF sessions = <<>> THEN <<>> ELSE Flat(Tail(sessions)) \o Head(sessions)

\* the k-th and the (k-1)-th activity walked are in one session of the result
Joined(sessions, sorted_acts, k) ==
    \E n \in DOMAIN sessions :
        \E i, j \in DOMAIN sessions[n] :
            sessions[n][i] = sorted_acts[k - 1] /\ sessions[n][j] = sorted_acts[k]

\* the activities walked before the k-th whose start parses
TimedBefore(sorted_acts, k) ==
    {i \in 1..(k - 1) : ParseStart(sorted_acts[i].startTimeLocal) /= None}

\* the running end time when the k-th activity is walked: start plus
\* duration, a missing duration counted as 0, of the last activity before it
\* whose start parses
RunningEnd(sorted_acts, k) ==
    EndOf(sorted_acts[CHOOSE i \in TimedBefore(sorted_acts, k) :
                          \A j \in TimedBefore(sorted_acts, k) : j <= i])

(* C23: the sessions of a result, oldest first, are consecutive runs of the
   activities in ascending start order, and an activity whose start parses
   is in the session of the activity walked before it exactly when its start
   is less than 2 hours after the running end time; a start exactly 2 hours
   after it opens a new session. *)
C23_JoinsWithinGap ==
    \A g \in DOMAIN groupings :
        LET sorted_acts == SortedByStart(NonNull(groupings[g].of))
            sessions == groupings[g].sessions
        IN  /\ Flat(sessions) = sorted_acts
            /\ \A k \in 2..Len(sorted_acts) :
                  (/\ ParseStart(sorted_acts[k].startTimeLocal) /= None
                   /\ TimedBefore(sorted_acts, k) /= {})
                      => (Joined(sessions, sorted_acts, k)
                            <=> StartOf(sorted_acts[k])
                                    - RunningEnd(sorted_acts, k) < 2 * 3600)

\* a list was grouped in which one activity starts exactly 2 hours after the
\* end of the one before and opens a session, and one in which an activity
\* starts an hour after one without duration and joins it
C23_ExactGapOpensSession ==
    /\ \E g \in DOMAIN groupings :
          LET sorted_acts == SortedByStart(NonNull(groupings[g].of))
          IN  \E k \in 2..Len(sorted_acts) :
                  /\ TimedBefore(sorted_acts, k) = 1..(k - 1)
                  /\ ParseStart(sorted_acts[k].startTimeLocal) /= None
                  /\ sorted_acts[k - 1].duration /= None
                  /\ StartOf(sorted_acts[k]) - EndOf(sorted_acts[k - 1]) = 7200
                  /\ ~Joined(groupings[g].sessions, sorted_acts, k)
    /\ \E g \in DOMAIN groupings :
          LET sorted_acts == SortedByStart(NonNull(groupings[g].of))
          IN  \E k \in 2..Len(sorted_acts) :
                  /\ TimedBefore(sorted_acts, k) = 1..(k - 1)
                  /\ ParseStart(sorted_acts[k].startTimeLocal) /= None
                  /\ sorted_acts[k - 1].duration = None
                  /\ StartOf(sorted_acts[k]) - StartOf(sorted_acts[k - 1]) = 3600
                  /\ Joined(groupings[g].sessions, sorted_acts, k)

(* C24: in every result an activity whose start is missing or does not parse
   is alone in its session. *)
C24_UntimedAlone ==
    \A g \in DOMAIN groupings :
        \A n \in DOMAIN groupings[g].sessions :
            (\E i \in DOMAIN groupings[g].sessions[n] :
                 ParseStart(groupings[g].sessions[n][i].startTimeLocal) = None)
                => Len(groupings[g].sessions[n]) = 1

-----------------------------------------------------------------------------
(* Properties of the model call of the narrative pipeline *)

\* the session ids of the model's answer in the run at hand
AnsweredIds ==
    {insights_run.ai_data[1].activity_insights[j].session_id :
        j \in DOMAIN insights_run.ai_data[1].activity_insights}

\* the keys of the sessions of the run at hand that the answer left out
OmittedIds ==
    {session_id(insights_run.sessions[k]) : k \in DOMAIN insights_run.sessions}
        \ AnsweredIds

(* C25, as the code has it: a run that reached the model step has made one
   model call when it returns, and a run that did not has made none; in the
   step that takes the answer into the memo, a session the answer left out
   gets the placeholder under its key when the key is absent from the memo
   and keeps its stored entry when the key is present. *)
C25_OneCallPlaceholderIfAbsent ==
    /\ [](/\ insights_run.calls = IF insights_run.outcome \in ModelOutcomes
                                  THEN 1 ELSE 0
          /\ \A n \in DOMAIN ai_log :
                ai_log[n].calls = IF ai_log[n].outcome \in ModelOutcomes
                                  THEN 1 ELSE 0)
    /\ [][(insights_run.pc = "remember" /\ insights_run'.pc = "unroll") =>
             \A sid \in OmittedIds :
                 /\ sid \in DOMAIN ai_memory'
                 /\ ai_memory'[sid] = IF sid \in DOMAIN ai_memory
                                      THEN ai_memory[sid] ELSE Placeholder(sid)
         ]_vars

\* a run without sessions made its one model call, and a run whose answer
\* left a new session out returned the placeholder for it
C25_PlaceholderReturned ==
    /\ \E n \in DOMAIN ai_log :
          /\ ai_log[n].outcome = "ok" /\ ai_log[n].calls = 1
          /\ ai_log[n].sessions = <<>>
    /\ \E n \in DOMAIN ai_log :
          /\ ai_log[n].outcome = "ok" /\ ai_log[n].calls = 1
          /\ \E j \in DOMAIN ai_log[n].body.activity_insights :
                ai_log[n].body.activity_insights[j].highlight = "**Solid Consistency!**"

(* C25, as stated: in the step that takes the answer into the memo, every
   session the answer left out gets the placeholder under its key. *)
C25_PlaceholderForEveryOmitted ==
    [][(insights_run.pc = "remember" /\ insights_run'.pc = "unroll") =>
          \A sid \in OmittedIds :
              sid \in DOMAIN ai_memory' /\ ai_memory'[sid] = Placeholder(sid)
      ]_vars

-----------------------------------------------------------------------------
(* Properties of the payload of the model call *)

(* C26: in the step that builds the payload, the entry of a session has the
   stages of its activities exactly when the session's key is absent from the
   memo; the entry of a session whose key is in the memo has two fields, the
   session_id and the narrative the memo holds under it; the payload has one
   entry per session, in session order, and is the one the model call finds. *)
C26_PayloadDetailIffNew ==
    [][/\ (insights_run.pc = "fetch" /\ insights_run'.pc = "model") =>
            /\ Len(insights_run'.payload) = Len(insights_run'.sessions)
            /\ \A k \in DOMAIN insights_run'.payload :
                 LET e == insights_run'.payload[k]
                     s == insights_run'.sessions[k]
                 IN  /\ e.session_id = session_id(s)
                     /\ ("stages" \in DOMAIN e) <=> (e.session_id \notin DOMAIN ai_memory)
                     /\ ("stages" \in DOMAIN e) =>
                            /\ Len(e.stages) = Len(s)
                            /\ \A j \in DOMAIN s : e.stages[j].activity_id = s[j].activityId
                     /\ ("stages" \notin DOMAIN e) =>
                            e = [session_id |-> e.session_id,
                                 cached_insight |-> ai_memory[e.session_id]]
       /\ (insights_run.pc = "model" /\ insights_run'.pc /= "model") =>
            /\ insights_run'.payload = insights_run.payload
            /\ ai_memory' = ai_memory
      ]_vars

\* the model call finds a payload with a session sent as its stored narrative
\* and a session sent in full
C26_CachedAndFullInOnePayload ==
    /\ insights_run.pc = "model"
    /\ \E k \in DOMAIN insights_run.payload :
          "cached_insight" \in DOMAIN insights_run.payload[k]
    /\ \E k \in DOMAIN insights_run.payload :
          "stages" \in DOMAIN insights_run.payload[k]

-----------------------------------------------------------------------------
(* Properties of a request for the active range that finds no fetch going on *)

(* C27: when the critical section is run for a request whose range is
   active_fetch_range while is_fetching is False, the request has missing
   ids, fetch_generation and active_fetch_range keep their values,
   is_fetching is True when the section ends, and one worker is started, with
   the live generation and the request's missing ids; no other worker is
   touched. *)
C27_RespawnUnderLiveGeneration ==
    [][\A h \in Handlers :
          (/\ handlers[h].pc = "lock" /\ handlers'[h].pc = "result"
           /\ Some(handlers[h].range_val) = active_fetch_range
           /\ ~is_fetching)
             => /\ handlers[h].missing_ids /= <<>>
                /\ fetch_generation' = fetch_generation
                /\ active_fetch_range' = active_fetch_range
                /\ is_fetching'
                /\ nspawned' = nspawned + 1
                /\ workers'[nspawned'].pc = "start"
                /\ workers'[nspawned'].generation_id = fetch_generation
                /\ workers'[nspawned'].activity_ids = handlers[h].missing_ids
                /\ \A w \in WorkerIds \ {nspawned'} : workers'[w] = workers[w]
      ]_vars

\* a second worker of generation 1 was started after the first one had
\* cleared the flag
C27_SecondWorkerSameGeneration ==
    /\ fetch_generation = 1 /\ is_fetching
    /\ nspawned = 2
    /\ workers[1].generation_id = 1 /\ workers[1].pc \in {"save", "done"}
    /\ workers[2].generation_id = 1 /\ workers[2].pc = "start"

-----------------------------------------------------------------------------
(* Properties of the number of detail fetches in flight *)

\* the workers whose pool thread is inside a detail call
Fetching == {w \in WorkerIds : workers[w].inflight /= None}

(* C28, as stated: at any moment at most one detail fetch is in flight,
   counted over all workers, those of the live generation and those of
   earlier generations. *)
C28_OneFetchInFlight == Cardinality(Fetching) <= 1

-----------------------------------------------------------------------------
(* Properties of the single slot of the heatmap response cache *)

\* the activity ids of the list of a range
RangeIds(range_val) ==
    {ActivityList(range_val)[k].activityId : k \in DOMAIN ActivityList(range_val)}

(* C29, as stated: the body of every answered request for a range R was
   computed from R's activity list: its total is the length of R's list and
   the activities in its data are activities of R. *)
C29_ResponseOfOwnRange ==
    \A i \in DOMAIN responses :
        responses[i].status = 200 =>
            /\ responses[i].body[1].total_activities
                   = Len(ActivityList(responses[i].range_val))
            /\ DataIds(responses[i].body[1]) \subseteq RangeIds(responses[i].range_val)

-----------------------------------------------------------------------------
(* Properties of the end of the workers *)

\* a worker of the live generation that has not yet executed app.py:454
RunningLive(w) ==
    /\ workers[w].pc \in {"start", "loop", "act", "clear"}
    /\ workers[w].generation_id = fetch_generation

(* C30: is_fetching is True only while a worker of the live generation is
   running that has yet to clear it; every worker that was started returns;
   and whenever is_fetching is True it becomes False later, the range changes
   of a behaviour being finitely many. *)
C30_WorkersEndFlagCleared ==
    /\ [](is_fetching => \E w \in WorkerIds : RunningLive(w))
    /\ \A w \in WorkerIds : (workers[w].pc /= "none") ~> (workers[w].pc = "done")
    /\ is_fetching ~> ~is_fetching

\* after a range change both workers have returned and the flag is down
C30_BothWorkersDoneFlagDown ==
    /\ fetch_generation = 2 /\ nspawned = 2
    /\ workers[1].pc = "done" /\ workers[2].pc = "done"
    /\ ~is_fetching

====
